---------------------------- MODULE Spec2Model ----------------------------
(***************************************************************************)
(* Model of the measure-filling engine of rea-score: exact fractions,      *)
(* EventInfo geometry (contains_pos, outlasts, cut_head), Measure::insert, *)
(* Container::insert with its tuplet builder, and normalize_fraction.      *)
(***************************************************************************)
EXTENDS Integers, Sequences, FiniteSets, TLC

(***************************************************************************)
(* Bounds of the model.                                                    *)
(***************************************************************************)
\* number of insert calls made on one measure / container
MaxInserts == 3
\* largest numerator fed to normalize_fraction
MaxNumer == 31

(***************************************************************************)
(* fraction::Fraction: a reduced pair <<numerator, denominator>>, the      *)
(* numerator carrying the sign.                                            *)
(***************************************************************************)
Abs(x) == IF x < 0 THEN -x ELSE x

RECURSIVE Gcd(_, _)
Gcd(a, b) == IF b = 0 THEN a ELSE Gcd(b, a % b)

Frac(n, d) ==
    LET g == Gcd(Abs(n), d)
    IN  IF n = 0 THEN <<0, 1>> ELSE <<n \div g, d \div g>>

Numer(f) == Abs(f[1])
Denom(f) == f[2]
Zero == <<0, 1>>

FAdd(a, b) == Frac(a[1] * b[2] + b[1] * a[2], a[2] * b[2])
FSub(a, b) == Frac(a[1] * b[2] - b[1] * a[2], a[2] * b[2])
FMul(a, b) == Frac(a[1] * b[1], a[2] * b[2])
FLt(a, b) == a[1] * b[2] < b[1] * a[2]
FLe(a, b) == a[1] * b[2] <= b[1] * a[2]

\* primitives/mod.rs: static LIMIT_DENOMINATOR
LIMIT_DENOMINATOR == 128

\* f64::round of n/d for n, d >= 0: half away from zero
RoundDiv(n, d) == (2 * n + d) \div (2 * d)

\* a faulty quantization: the denominator is not scaled with the numerator
limit_denominator_unscaled(frac, limit) ==
    Frac(RoundDiv(Numer(frac) * limit, Denom(frac)), Denom(frac))

\* a faulty quantization: the scaled numerator is truncated, not rounded
limit_denominator_truncated(frac, limit) ==
    Frac((Numer(frac) * limit) \div Denom(frac), limit)

\* fraction_tools.rs limit_denominator: numerator scaled by limit/denom and
\* rounded, over the rounded denominator (= limit); the sign is not read.
limit_denominator(frac, limit) ==
    Frac(RoundDiv(Numer(frac) * limit, Denom(frac)), limit)


(***************************************************************************)
(* RelativePosition: [measure_index, measure_position].                    *)
(***************************************************************************)
RelativePosition(index, pos) ==
    [measure_index |-> index, measure_position |-> pos]

\* position.rs get_position: the offset quantized to LIMIT_DENOMINATOR
get_position(p) == limit_denominator(p.measure_position, LIMIT_DENOMINATOR)

\* accessors of the RelativePosition revision event.rs and container.rs are
\* written against: the raw offset and its quantized forms
position(p) == p.measure_position
position_quantized(p) == limit_denominator(p.measure_position, LIMIT_DENOMINATOR)
position_quantized_to(p, denom) == limit_denominator(p.measure_position, denom)

\* derived PartialOrd of RelativePosition: measure index first, then offset
PosLe(a, b) ==
    \/ a.measure_index < b.measure_index
    \/ /\ a.measure_index = b.measure_index
       /\ FLe(a.measure_position, b.measure_position)

\* length.rs Length::get_quantized
get_quantized(len) == limit_denominator(len, LIMIT_DENOMINATOR)
get_quantized_to(len, denom) == limit_denominator(len, denom)

\* a faulty subtraction of lengths: the exact fractions are subtracted
Length_sub_exact(a, b) ==
    IF FSub(a, b)[1] < 0
    THEN [tag |-> "Panic", value |-> Zero]
    ELSE [tag |-> "Ok", value |-> FSub(a, b)]

\* length.rs impl Sub for Length: [tag, value]; the quantized lengths are
\* subtracted, a negative result aborts
Length_sub(a, b) ==
    IF FSub(get_quantized(a), get_quantized(b))[1] < 0
    THEN [tag |-> "Panic", value |-> Zero]
    ELSE [tag |-> "Ok", value |-> FSub(get_quantized(a), get_quantized(b))]

\* length.rs impl PartialEq for Length: the quantized lengths are compared
Length_eq(a, b) == get_quantized(a) = get_quantized(b)
Length_ne(a, b) == get_quantized(a) # get_quantized(b)

\* length.rs #[derive(PartialOrd)] of Length: the field fraction is compared
Length_lt(a, b) == FLt(a, b)
Length_le(a, b) == FLe(a, b)
Length_gt(a, b) == FLt(b, a)
Length_ge(a, b) == FLe(b, a)

(***************************************************************************)
(* EventType payloads and EventInfo.  An Option<T> is a sequence of length *)
(* 0 (None) or 1 (Some).                                                   *)
(***************************************************************************)
None == <<>>
Some(x) == <<x>>

Rest == [kind |-> "Rest"]
NoteOf(pitch, tie) == [pitch |-> pitch, tie |-> tie]
Note(n) == [kind |-> "Note", note |-> n]
Chord(notes) == [kind |-> "Chord", notes |-> notes]
TupletPayload(t) == [kind |-> "Tuplet", tuplet |-> t]

NonTuplet == [kind |-> "NonTuplet", rate |-> Zero]
TupletStart(rate) == [kind |-> "TupletStart", rate |-> rate]
TupletEnd == [kind |-> "TupletEnd", rate |-> Zero]

\* event.rs EventInfo::new
EventInfo(pos, len, payload) ==
    [position |-> pos, length |-> len, event |-> payload,
     tuplet_type |-> NonTuplet]

\* event.rs EventInfo::end_position
end_position(e) ==
    RelativePosition(e.position.measure_index,
                     FAdd(position(e.position), e.length))

\* mod.rs EventInfo::get_end_position, as called by measure.rs
get_end_position(e) ==
    RelativePosition(e.position.measure_index,
                     FAdd(get_position(e.position), e.length))

\* a faulty contains_pos: the measure of the position is not compared
contains_pos_any_measure(e, pos) ==
    /\ FLe(position(e.position), position(pos))
    /\ FLt(position(pos), FAdd(position(e.position), e.length))

\* event.rs EventInfo::contains_pos
contains_pos(e, pos) ==
    /\ pos.measure_index = e.position.measure_index
    /\ FLe(position(e.position), position(pos))
    /\ FLt(position(pos), FAdd(position(e.position), e.length))

\* event.rs EventInfo::outlasts: Some(self end - other end) or None
outlasts(e, other) ==
    LET o_end == FAdd(position(other.position), other.length)
        s_end == FAdd(position(e.position), e.length)
    IN  IF e.position.measure_index # other.position.measure_index
        THEN None
        ELSE IF FLe(s_end, o_end) THEN None ELSE Some(FSub(s_end, o_end))

\* a faulty split: the left part is not tied to the right part
split_untied(payload) == <<payload, payload>>

\* event.rs EventType::split for Rest, Note and Chord (a Tuplet panics: the
\* callers test for it first): the left part gets its ties set
SetTie(n) == [n EXCEPT !.tie = TRUE]

split(payload) ==
    CASE payload.kind = "Note" ->
            <<Note(SetTie(payload.note)), payload>>
      [] payload.kind = "Chord" ->
            <<Chord([i \in 1..Len(payload.notes) |-> SetTie(payload.notes[i])]),
              payload>>
      [] OTHER -> <<payload, payload>>

\* a faulty cut_head: the head is left at the start of the event
cut_head_at_start(e, head_length) ==
    IF e.event.kind = "Tuplet"
    THEN [tag |-> "Panic", self |-> e, head |-> None]
    ELSE IF FLt(e.length, head_length)
    THEN [tag |-> "Err", self |-> e, head |-> None]
    ELSE [tag |-> "Ok",
          self |-> [e EXCEPT !.event = split(e.event)[1],
                             !.length = FSub(e.length, head_length)],
          head |-> Some([e EXCEPT !.event = split(e.event)[2],
                                  !.length = head_length])]

\* a faulty cut_head: the kept part is not shortened by the head
cut_head_keeps_length(e, head_length) ==
    IF e.event.kind = "Tuplet"
    THEN [tag |-> "Panic", self |-> e, head |-> None]
    ELSE IF FLt(e.length, head_length)
    THEN [tag |-> "Err", self |-> e, head |-> None]
    ELSE [tag |-> "Ok", self |-> [e EXCEPT !.event = split(e.event)[1]],
          head |-> Some([e EXCEPT
                           !.event = split(e.event)[2],
                           !.length = head_length,
                           !.position = RelativePosition(
                               e.position.measure_index,
                               FAdd(position(e.position),
                                    FSub(e.length, head_length)))])]

\* event.rs EventInfo::cut_head: [tag, self, head]
cut_head(e, head_length) ==
    IF e.event.kind = "Tuplet"
    THEN [tag |-> "Panic", self |-> e, head |-> None]
    ELSE IF FLt(e.length, head_length)
    THEN [tag |-> "Err", self |-> e, head |-> None]
    ELSE LET parts == split(e.event)
             l_len == FSub(e.length, head_length)
             r_pos == RelativePosition(e.position.measure_index,
                                       FAdd(position(e.position), l_len))
             kept == [e EXCEPT !.event = parts[1], !.length = l_len]
         IN  [tag |-> "Ok", self |-> kept,
              head |-> Some([kept EXCEPT !.event = parts[2],
                                         !.length = head_length,
                                         !.position = r_pos])]

\* a faulty cut_head_at_position: the position is not compared with the
\* start of the event
cut_head_at_position_unchecked(e, pos) ==
    cut_head(e, FSub(FAdd(position(e.position), e.length), position(pos)))

\* a faulty cut_head_at_position: the head gets the length from the start of
\* the event to the position instead of from the position to its end
cut_head_at_position_swapped(e, pos) ==
    IF PosLe(pos, e.position)
    THEN [tag |-> "Err", self |-> e, head |-> None]
    ELSE cut_head(e, FSub(position(pos), position(e.position)))

\* event.rs EventInfo::cut_head_at_position
cut_head_at_position(e, pos) ==
    IF PosLe(pos, e.position)
    THEN [tag |-> "Err", self |-> e, head |-> None]
    ELSE cut_head(e, FSub(FAdd(position(e.position), e.length), position(pos)))

\* a faulty Chord::push: the new notes are put in front of the chord
Chord_push_front(notes, payload) ==
    CASE payload.kind = "Note" ->
            [tag |-> "Ok", notes |-> <<payload.note>> \o notes]
      [] payload.kind = "Chord" ->
            [tag |-> "Ok", notes |-> payload.notes \o notes]
      [] OTHER -> [tag |-> "Err", notes |-> notes]

\* event.rs Chord::push on the notes of a chord: [tag, notes]
Chord_push(notes, payload) ==
    CASE payload.kind = "Note" ->
            [tag |-> "Ok", notes |-> Append(notes, payload.note)]
      [] payload.kind = "Chord" ->
            [tag |-> "Ok", notes |-> notes \o payload.notes]
      [] OTHER -> [tag |-> "Err", notes |-> notes]

InsertAt(seq, i, x) == SubSeq(seq, 1, i - 1) \o <<x>> \o SubSeq(seq, i, Len(seq))

Min(S) == CHOOSE x \in S : \A y \in S : x <= y

(***************************************************************************)
(* Results: Result<Option<EventInfo>, String>, plus "Panic" for an abort.  *)
(***************************************************************************)
Ok(head) == [tag |-> "Ok", head |-> head]
Err == [tag |-> "Err", head |-> None]
Panic == [tag |-> "Panic", head |-> None]
Fail(tag) == [tag |-> tag, head |-> None]

\* the overflow returned to the caller: offset 0 of the next measure
ToNextMeasure(head, index) ==
    [head EXCEPT !.position = RelativePosition(index + 1, Zero)]

(***************************************************************************)
(* measure.rs Measure: [index, time_signature, events, length].            *)
(***************************************************************************)
\* measure.rs Measure::new: one Rest spanning the whole measure
Measure_new(index, numerator, denominator) ==
    [index |-> index,
     time_signature |-> [numerator |-> numerator, denominator |-> denominator],
     events |-> <<EventInfo(RelativePosition(index, Zero),
                            Frac(numerator, denominator), Rest)>>,
     length |-> Frac(numerator, denominator)]

\* measure.rs Measure::resolve_event_overlaps:
\* [tag, events, event, append_to_self]
Measure_resolve_event_overlaps(events, event, idx) ==
    LET current == events[idx]
        over == outlasts(event, current)
        under == outlasts(current, event)
    IN  IF over # None
        THEN LET c == cut_head(event, over[1])
             IN  [tag |-> c.tag, events |-> events, event |-> c.self,
                  append_to_self |-> c.head]
        ELSE IF under # None
        THEN LET c == cut_head(current, under[1])
             IN  IF c.tag # "Ok"
                 THEN [tag |-> c.tag, events |-> events, event |-> event,
                       append_to_self |-> None]
                 ELSE [tag |-> "Ok",
                       events |-> InsertAt([events EXCEPT ![idx] = c.self],
                                           idx + 1, c.head[1]),
                       event |-> event, append_to_self |-> None]
        ELSE [tag |-> "Ok", events |-> events, event |-> event,
              append_to_self |-> None]

\* measure.rs Measure::insert, lines 263-273: the payload of the slot after
\* the merge: [tag, event]
Measure_merge(current, payload) ==
    CASE current.kind = "Rest" -> [tag |-> "Ok", event |-> payload]
      [] current.kind = "Chord" ->
            LET r == Chord_push(current.notes, payload)
            IN  [tag |-> r.tag, event |-> Chord(r.notes)]
      [] current.kind = "Note" ->
            LET r == Chord_push(<<current.note>>, payload)
            IN  [tag |-> r.tag, event |-> Chord(r.notes)]

RECURSIVE Measure_insert(_, _)

\* measure.rs Measure::insert, lines 301-316: the result of the recursive
\* insert; a head coming back from it is unexpected
Measure_unexpected(rec, ret) ==
    IF rec.res.tag # "Ok" THEN rec
    ELSE IF rec.res.head = None THEN [self |-> rec.self, res |-> Ok(ret)]
    ELSE [self |-> rec.self, res |-> Err]

\* measure.rs Measure::insert, lines 293-307: the head cut at the end of the
\* measure, its left part inserted, its right part returned
Measure_cut_overflow(self, c) ==
    IF c.tag # "Ok" THEN [self |-> self, res |-> Fail(c.tag)]
    ELSE Measure_unexpected(Measure_insert(self, c.self),
                            Some(ToNextMeasure(c.head[1], self.index)))

\* measure.rs Measure::insert, lines 276-319: what is done with the head cut
\* from the inserted event
Measure_append_to_self(self, head) ==
    IF get_position(head.position) = self.length
    THEN [self |-> self, res |-> Ok(Some(ToNextMeasure(head, self.index)))]
    ELSE IF FLt(self.length, get_position(get_end_position(head)))
    THEN Measure_cut_overflow(
             self, cut_head_at_position(
                       head, RelativePosition(self.index, self.length)))
    ELSE Measure_unexpected(Measure_insert(self, head), None)

\* measure.rs Measure::insert, lines 263-277: the slot at idx takes the merged
\* payload r3
Measure_set_event(self, idx, append_to_self, r3) ==
    IF r3.tag # "Ok" THEN [self |-> self, res |-> Fail(r3.tag)]
    ELSE IF append_to_self = None
    THEN [self |-> [self EXCEPT !.events[idx].event = r3.event],
          res |-> Ok(None)]
    ELSE Measure_append_to_self([self EXCEPT !.events[idx].event = r3.event],
                                append_to_self[1])

\* measure.rs Measure::insert, lines 254-258: the slot cut at the start of the
\* event (r2), the event goes to the new slot idx0 + 1
Measure_cut_current(self, r1, idx0, r2) ==
    IF r2.tag # "Ok"
    THEN [self |-> [self EXCEPT !.events = r1.events], res |-> Fail(r2.tag)]
    ELSE Measure_set_event(
             [self EXCEPT !.events =
                 InsertAt([r1.events EXCEPT ![idx0] = r2.self],
                          idx0 + 1, r2.head[1])],
             idx0 + 1, r1.append_to_self,
             Measure_merge(r2.head[1].event, r1.event.event))

\* measure.rs Measure::insert, lines 248-274: after resolve_event_overlaps (r1)
Measure_align(self, r1, idx0) ==
    IF r1.tag # "Ok" THEN [self |-> self, res |-> Fail(r1.tag)]
    ELSE IF r1.events[idx0].position # r1.event.position
    THEN Measure_cut_current(
             self, r1, idx0,
             cut_head_at_position(r1.events[idx0], r1.event.position))
    ELSE Measure_set_event(
             [self EXCEPT !.events = r1.events], idx0, r1.append_to_self,
             Measure_merge(r1.events[idx0].event, r1.event.event))

\* measure.rs Measure::insert: [self, res]
Measure_insert(self, event) ==
    LET found == {i \in 1..Len(self.events) :
                     contains_pos(self.events[i], event.position)}
    IN  IF found = {} THEN [self |-> self, res |-> Err]
        ELSE Measure_align(
                 self,
                 Measure_resolve_event_overlaps(self.events, event, Min(found)),
                 Min(found))

(***************************************************************************)
(* primitives/time_map.rs TimeMap: [measures, begin, end, start_position], *)
(* and primitives/position.rs AbsolutePosition: [position].                *)
(***************************************************************************)
\* position.rs AbsolutePosition::from(Fraction)
AbsolutePosition(value) == [position |-> value]

\* position.rs AbsolutePosition::get: the position quantized to
\* LIMIT_DENOMINATOR
AbsolutePosition_get(p) == limit_denominator(p.position, LIMIT_DENOMINATOR)

\* position.rs impl AddAssign<Length> for AbsolutePosition: the quantized
\* position plus the length as it is
AbsolutePosition_add_assign(p, len) ==
    [position |-> FAdd(AbsolutePosition_get(p), len)]

\* position.rs #[derive(PartialOrd)] of AbsolutePosition: the field is
\* compared
AbsolutePosition_gt(a, b) == FLt(b.position, a.position)

\* time_map.rs MeasureInfo::new
MeasureInfo_new(index, time_signature) ==
    [index |-> index, time_signature |-> time_signature,
     length |-> Frac(time_signature.numerator, time_signature.denominator)]

\* time_map.rs TimeMap::new
TimeMap_new(measures, start_position) ==
    [measures |-> measures,
     begin |-> measures[1].index,
     end |-> measures[1].index + Len(measures) - 1,
     start_position |-> start_position]

\* counted_abs of the loops of time_map.rs after k measures were added
RECURSIVE counted_abs(_, _)
counted_abs(self, k) ==
    IF k = 0
    THEN self.start_position
    ELSE AbsolutePosition_add_assign(counted_abs(self, k - 1),
                                     self.measures[k].length)

\* time_map.rs get_absolute_position_of_measure: the lengths of the
\* measures before the first one with the index are added to the start
get_absolute_position_of_measure(self, measure_index) ==
    LET found == {k \in 1..Len(self.measures) :
                     self.measures[k].index = measure_index}
    IN  IF found = {}
        THEN counted_abs(self, Len(self.measures))
        ELSE counted_abs(self, Min(found) - 1)

\* time_map.rs get_measure_from_absolute_position: the first measure whose
\* end is greater than the position, with the position of its start
get_measure_from_absolute_position(self, absolute) ==
    LET found == {k \in 1..Len(self.measures) :
                     AbsolutePosition_gt(counted_abs(self, k), absolute)}
    IN  IF found = {}
        THEN None
        ELSE Some(<<self.measures[Min(found)],
                    counted_abs(self, Min(found) - 1)>>)

\* time_map.rs pos_relative_from_absolute
pos_relative_from_absolute(self, absolute) ==
    LET found == get_measure_from_absolute_position(self, absolute)
    IN  IF found = None
        THEN None
        ELSE Some(RelativePosition(
                      found[1][1].index,
                      FSub(AbsolutePosition_get(absolute),
                           AbsolutePosition_get(found[1][2]))))

\* time_map.rs pos_absolute_from_relative
pos_absolute_from_relative(self, relative) ==
    AbsolutePosition(
        FAdd(AbsolutePosition_get(
                 get_absolute_position_of_measure(self,
                                                  relative.measure_index)),
             get_position(relative)))

(***************************************************************************)
(* notation/: the notation values, their tokens and the ReaScore section   *)
(* of the tokens of a notation message. Strings are strings.               *)
(***************************************************************************)
\* notation/mod.rs: the section marker and the two delimiters
SECTION == "ReaScore"
NOTATION_DELIMITER == "|"
TOKENS_DELIMITER == ":"

\* str::starts_with
starts_with(s, prefix) ==
    /\ Len(prefix) <= Len(s)
    /\ SubSeq(s, 1, Len(prefix)) = prefix

\* str::split on a delimiter of one character, collected
RECURSIVE str_split(_, _)
str_split(s, delimiter) ==
    LET at == {i \in 1..Len(s) : SubSeq(s, i, i) = delimiter}
    IN  IF at = {}
        THEN <<s>>
        ELSE <<SubSeq(s, 1, Min(at) - 1)>>
             \o str_split(SubSeq(s, Min(at) + 1, Len(s)), delimiter)

\* [String]::join
RECURSIVE join(_, _)
join(v, delimiter) ==
    IF v = <<>> THEN ""
    ELSE IF Len(v) = 1 THEN v[1]
    ELSE v[1] \o delimiter \o join(Tail(v), delimiter)

\* to_string of an unsigned integer: its decimal digits
RECURSIVE unsigned_to_string(_)
unsigned_to_string(n) ==
    IF n < 10
    THEN SubSeq("0123456789", n + 1, n + 1)
    ELSE unsigned_to_string(n \div 10)
         \o SubSeq("0123456789", (n % 10) + 1, (n % 10) + 1)

\* the string is a non-empty run of decimal digits
IsUnsigned(s) ==
    /\ Len(s) > 0
    /\ \A i \in 1..Len(s) :
          \E d \in 1..10 : SubSeq(s, i, i) = SubSeq("0123456789", d, d)

\* the number a run of decimal digits stands for
RECURSIVE unsigned_from_str(_)
unsigned_from_str(s) ==
    IF Len(s) = 0 THEN 0
    ELSE 10 * unsigned_from_str(SubSeq(s, 1, Len(s) - 1))
         + (CHOOSE d \in 0..9 :
               SubSeq(s, Len(s), Len(s)) = SubSeq("0123456789", d + 1, d + 1))

\* Result of the notation parsers
Parsed(value) == [tag |-> "Ok", value |-> value]
NotationError(error) == [tag |-> "Err", error |-> error]

\* notation/mod.rs reascore_tokens(s, None)
reascore_tokens(reascore_notation_string) ==
    IF reascore_notation_string = ""
    THEN NotationError("NoTokens")
    ELSE Parsed(str_split(reascore_notation_string, TOKENS_DELIMITER))

\* notation/mod.rs get_token (idx counts from 0)
get_token(v, idx) ==
    IF idx + 1 <= Len(v)
    THEN Parsed(v[idx + 1])
    ELSE NotationError("NotEnoughTokens")

\* note_notations.rs impl ToString for NoteHead
NoteHead_to_string(self) ==
    CASE self = "Default" -> "default"
      [] self = "AltDefault" -> "altdefault"
      [] self = "Baroque" -> "baroque"
      [] self = "Neomensural" -> "neomensural"
      [] self = "Mensural" -> "mensural"
      [] self = "Petrucci" -> "petrucci"
      [] self = "Harmonic" -> "harmonic"
      [] self = "HarmonicBlack" -> "harmonic-black"
      [] self = "HarmonicMixed" -> "harmonic-mixed"
      [] self = "Diamond" -> "diamond"
      [] self = "Cross" -> "cross"
      [] self = "XCircle" -> "xcircle"
      [] self = "Triangle" -> "triangle"
      [] self = "Slash" -> "slash"

\* note_notations.rs impl FromStr for NoteHead
NoteHead_from_str(s) ==
    CASE s = "default" -> Parsed("Default")
      [] s = "altdefault" -> Parsed("AltDefault")
      [] s = "baroque" -> Parsed("Baroque")
      [] s = "neomensural" -> Parsed("Neomensural")
      [] s = "mensural" -> Parsed("Mensural")
      [] s = "petrucci" -> Parsed("Petrucci")
      [] s = "harmonic" -> Parsed("Harmonic")
      [] s = "harmonic-black" -> Parsed("HarmonicBlack")
      [] s = "harmonic-mixed" -> Parsed("HarmonicMixed")
      [] s = "diamond" -> Parsed("Diamond")
      [] s = "cross" -> Parsed("Cross")
      [] s = "xcircle" -> Parsed("XCircle")
      [] s = "triangle" -> Parsed("Triangle")
      [] s = "slash" -> Parsed("Slash")
      [] OTHER -> NotationError("UnexpectedToken")

\* the values of NoteNotations and ChordNotations: the variant and its field
NoteNotations_NoteHead(head) == [type |-> "NoteHead", head |-> head]
NoteNotations_Voice(idx) == [type |-> "Voice", idx |-> idx]
ChordNotations_Dynamics(expr) == [type |-> "Dynamics", expr |-> expr]
ChordNotations_TupletRate(rate) == [type |-> "TupletRate", rate |-> rate]
ChordNotations_TupletEnd == [type |-> "TupletEnd"]

\* note_notations.rs impl ToString for NoteNotations
NoteNotations_to_string(self) ==
    IF self.type = "NoteHead"
    THEN "note-head:" \o NoteHead_to_string(self.head)
    ELSE "voice:" \o unsigned_to_string(self.idx)

\* the ? on a parsed value given to a constructor
Wrapped(parsed, Constructor(_)) ==
    IF parsed.tag = "Ok" THEN Parsed(Constructor(parsed.value)) ELSE parsed

\* note_notations.rs impl FromStr for NoteNotations: both arms build a
\* NoteHead of the parsed second token
NoteNotations_from_str(s) ==
    LET tokens == reascore_tokens(s)
    IN  IF tokens.tag # "Ok" THEN tokens
        ELSE IF tokens.value[1] \in {"note-head", "voice"}
        THEN IF get_token(tokens.value, 1).tag # "Ok"
             THEN get_token(tokens.value, 1)
             ELSE Wrapped(NoteHead_from_str(get_token(tokens.value, 1).value),
                          NoteNotations_NoteHead)
        ELSE NotationError("UnexpectedToken")

\* chord_notations.rs impl ToString for ChordNotations
ChordNotations_to_string(self) ==
    CASE self.type = "Dynamics" -> "dyn" \o TOKENS_DELIMITER \o self.expr
      [] self.type = "TupletRate" ->
            "tuplet" \o TOKENS_DELIMITER \o unsigned_to_string(Numer(self.rate))
            \o "/" \o unsigned_to_string(Denom(self.rate))
      [] self.type = "TupletEnd" -> "tuplet_end"

\* Fraction::from_str as chord_notations.rs calls it: "A/B" with B > 0, or
\* "A", of decimal digits, to the reduced fraction
Fraction_from_str(expr) ==
    LET pieces == str_split(expr, "/")
    IN  IF Len(pieces) = 1 /\ IsUnsigned(pieces[1])
        THEN Parsed(Frac(unsigned_from_str(pieces[1]), 1))
        ELSE IF /\ Len(pieces) = 2
                /\ IsUnsigned(pieces[1])
                /\ IsUnsigned(pieces[2])
                /\ unsigned_from_str(pieces[2]) > 0
        THEN Parsed(Frac(unsigned_from_str(pieces[1]),
                         unsigned_from_str(pieces[2])))
        ELSE NotationError("ParseError")

\* chord_notations.rs impl FromStr for ChordNotations
ChordNotations_from_str(s) ==
    LET tokens == reascore_tokens(s)
    IN  IF tokens.tag # "Ok" THEN tokens
        ELSE IF tokens.value[1] = "dyn"
        THEN Wrapped(get_token(tokens.value, 1), ChordNotations_Dynamics)
        ELSE IF tokens.value[1] = "tuplet"
        THEN IF get_token(tokens.value, 1).tag # "Ok"
             THEN get_token(tokens.value, 1)
             ELSE Wrapped(Fraction_from_str(get_token(tokens.value, 1).value),
                          ChordNotations_TupletRate)
        ELSE IF tokens.value[1] = "tuplet_end"
        THEN Parsed(ChordNotations_TupletEnd)
        ELSE NotationError("UnexpectedToken")

\* the values of NotationType: [of, notation]
NotationType_Note(notation) == [of |-> "Note", notation |-> notation]
NotationType_Chord(notation) == [of |-> "Chord", notation |-> notation]

\* to_string of NotationType, which message.rs calls: the token of the
\* notation it holds
NotationType_to_string(self) ==
    IF self.of = "Note"
    THEN NoteNotations_to_string(self.notation)
    ELSE ChordNotations_to_string(self.notation)

\* message.rs reascore_notation_string: the sub-tokens of the one token
\* that starts with SECTION, without the section marker
reascore_notation_string(tokens) ==
    LET IsSection(tk) == starts_with(tk, SECTION)
        v == SelectSeq(tokens, IsSection)
    IN  IF Len(v) = 1
        THEN Some(Tail(str_split(v[1], NOTATION_DELIMITER)))
        ELSE None

\* message.rs MidiFuncs::parse_notations on the tokens of a Note notation:
\* the sub-tokens that parse as NoteNotations, then those that parse as
\* ChordNotations
parse_notations(tokens) ==
    LET rs == reascore_notation_string(tokens)
        IsNote(tk) == NoteNotations_from_str(tk).tag = "Ok"
        IsChord(tk) == ChordNotations_from_str(tk).tag = "Ok"
        notes == SelectSeq(rs[1], IsNote)
        chords == SelectSeq(rs[1], IsChord)
    IN  IF rs = None THEN None
        ELSE Some([k \in 1..Len(notes) |->
                      NotationType_Note(NoteNotations_from_str(notes[k]).value)]
                  \o [k \in 1..Len(chords) |->
                      NotationType_Chord(
                          ChordNotations_from_str(chords[k]).value)])

\* Vec::swap_remove: the element is replaced by the last one
swap_remove(v, idx) ==
    [k \in 1..(Len(v) - 1) |-> IF k = idx THEN v[Len(v)] ELSE v[k]]

\* message.rs replace_notations, the closure mapped over rs_tokens from the
\* k-th one on: a sub-token is replaced by the first given string that
\* starts with its first token, which is taken out of strings
RECURSIVE replace_tokens(_, _, _)
replace_tokens(rs_tokens, strings, k) ==
    IF k > Len(rs_tokens)
    THEN [tag |-> "Ok", rs_tokens |-> rs_tokens, strings |-> strings]
    ELSE IF reascore_tokens(rs_tokens[k]).tag # "Ok"
    THEN [tag |-> "Err", rs_tokens |-> rs_tokens, strings |-> strings]
    ELSE LET tk_start == reascore_tokens(rs_tokens[k]).value[1]
             found == {idx \in 1..Len(strings) :
                          starts_with(strings[idx], tk_start)}
         IN  IF found = {}
             THEN replace_tokens(rs_tokens, strings, k + 1)
             ELSE replace_tokens(
                      [rs_tokens EXCEPT ![k] = strings[Min(found)]],
                      swap_remove(strings, Min(found)), k + 1)

\* message.rs replace_reascore_notation_string
replace_reascore_notation_string(tokens, reascore_string) ==
    LET found == {k \in 1..Len(tokens) : starts_with(tokens[k], SECTION)}
    IN  IF found = {}
        THEN Append(tokens, "text " \o reascore_string)
        ELSE [tokens EXCEPT ![Min(found)] = reascore_string]

\* message.rs MidiFuncs::replace_notations on the tokens of a Note
\* notation: [tag, tokens]
replace_notations(tokens, notations) ==
    LET strings == [k \in 1..Len(notations) |->
                       NotationType_to_string(notations[k])]
        rs == reascore_notation_string(tokens)
        replaced == replace_tokens(IF rs = None THEN <<>> ELSE rs[1],
                                   strings, 1)
    IN  IF replaced.tag # "Ok"
        THEN [tag |-> "Err", tokens |-> tokens]
        ELSE [tag |-> "Ok",
              tokens |-> replace_reascore_notation_string(
                             tokens,
                             SECTION \o NOTATION_DELIMITER
                             \o join(replaced.rs_tokens \o replaced.strings,
                                     NOTATION_DELIMITER))]

(***************************************************************************)
(* dom/mod.rs Voice: [begin_measure, measures].                            *)
(***************************************************************************)
\* dom/mod.rs impl From<Arc<TimeMap>> for Voice: one Measure per measure of
\* the time map
Voice_from(infos, begin_measure) ==
    [begin_measure |-> begin_measure,
     measures |-> [k \in 1..Len(infos) |->
                     Measure_new(infos[k].index,
                                 infos[k].time_signature.numerator,
                                 infos[k].time_signature.denominator)]]

RECURSIVE Voice_insert_event(_, _)

\* dom/mod.rs Voice::insert_event, lines 43-47: the measure k has taken the
\* event (r); a head goes to insert_event again
Voice_inserted(self, k, r) ==
    IF r.res.tag # "Ok"
    THEN [self |-> [self EXCEPT !.measures[k] = r.self], tag |-> r.res.tag]
    ELSE IF r.res.head = None
    THEN [self |-> [self EXCEPT !.measures[k] = r.self], tag |-> "Ok"]
    ELSE Voice_insert_event([self EXCEPT !.measures[k] = r.self],
                            r.res.head[1])

\* a faulty lookup: an event for a measure the voice does not have is
\* dropped and the call returns Ok
Voice_insert_at_dropping(self, index, event) ==
    IF index - self.begin_measure + 1 > Len(self.measures)
    THEN [self |-> self, tag |-> "Ok"]
    ELSE Voice_inserted(
             self, index - self.begin_measure + 1,
             Measure_insert(self.measures[index - self.begin_measure + 1],
                            event))

\* dom/mod.rs Voice::insert_event, lines 36-43: the measure of the index
\* is looked up
Voice_insert_at(self, index, event) ==
    IF index - self.begin_measure + 1 > Len(self.measures)
    THEN [self |-> self, tag |-> "Err"]
    ELSE Voice_inserted(
             self, index - self.begin_measure + 1,
             Measure_insert(self.measures[index - self.begin_measure + 1],
                            event))

\* dom/mod.rs Voice::insert_event: [self, tag]
Voice_insert_event(self, event) ==
    IF event.position.measure_index < self.begin_measure
    THEN Voice_insert_at(
             self, self.begin_measure,
             [event EXCEPT !.position =
                 RelativePosition(self.begin_measure, Zero)])
    ELSE Voice_insert_at(self, event.position.measure_index, event)

(***************************************************************************)
(* container.rs Container: [events, position, length, tuplet], and         *)
(* event.rs Tuplet: [rate, container, position, length].                   *)
(***************************************************************************)
\* container.rs Container::empty: one Rest spanning the whole container
Container_empty(pos, length) ==
    [events |-> <<EventInfo(pos, length, Rest)>>,
     position |-> pos, length |-> length, tuplet |-> None]

\* position.rs impl Sub for RelativePosition: [tag, pos].  The offsets are
\* added; the asserts abort on different measures and on a zero result.
RelativePosition_sub(a, b) ==
    LET new == FAdd(get_position(a), get_position(b))
    IN  IF a.measure_index # b.measure_index \/ new = Zero
        THEN [tag |-> "Panic", pos |-> a]
        ELSE [tag |-> "Ok", pos |-> RelativePosition(a.measure_index, new)]

\* container.rs Container::set_end_position: [tag, self]
Container_set_end_position(self, end) ==
    LET self_end == RelativePosition(self.position.measure_index,
                        FAdd(position(self.position), self.length))
        diff == RelativePosition_sub(end, self_end)
        additional_length == position(diff.pos)
        n == Len(self.events)
        back == self.events[n]
        events == IF back.event.kind = "Rest"
                  THEN [self.events EXCEPT ![n].length =
                           FSub(position(end), position(back.position))]
                  ELSE Append(self.events,
                              EventInfo(self_end, additional_length, Rest))
    IN  IF diff.tag # "Ok" THEN [tag |-> "Panic", self |-> self]
        ELSE [tag |-> "Ok",
              self |-> [self EXCEPT !.events = events,
                                    !.length = FSub(position(end),
                                                    position(self.position))]]

\* event.rs Tuplet::set_end_position: [tag, self]
Tuplet_set_end_position(self, end) ==
    LET length == FSub(position(end), position(self.position))
        inner_end == RelativePosition(end.measure_index,
                                      get_quantized(FMul(length, self.rate)))
        c == Container_set_end_position(self.container, inner_end)
    IN  [tag |-> c.tag,
         self |-> [self EXCEPT !.length = length, !.container = c.self]]

\* event.rs Tuplet::end_position
Tuplet_end_position(self) ==
    RelativePosition(self.position.measure_index,
                     FAdd(position(self.position), self.length))

\* event.rs Tuplet::apply_rate_to_event
apply_rate_to_event(self, event) ==
    LET pos == FMul(FSub(position(event.position), position(self.position)),
                    self.rate)
    IN  [event EXCEPT
            !.length = get_quantized(FMul(event.length, self.rate)),
            !.position = RelativePosition(
                event.position.measure_index,
                limit_denominator(pos, LIMIT_DENOMINATOR))]

\* event.rs Tuplet::apply_rate, the internal grid
TUPLET_QUANTIZE == 256

\* apply_rate without the shift to the start of the first event
apply_rate_unshifted(rate, events) ==
    [position |-> events[1].position,
     events |-> [i \in 1..Len(events) |->
        [events[i] EXCEPT
            !.position = RelativePosition(
                events[i].position.measure_index,
                limit_denominator(
                    FMul(position_quantized_to(events[i].position,
                                               TUPLET_QUANTIZE), rate),
                    LIMIT_DENOMINATOR)),
            !.length = limit_denominator(
                FMul(get_quantized_to(events[i].length, TUPLET_QUANTIZE), rate),
                LIMIT_DENOMINATOR)]]]

\* event.rs Tuplet::apply_rate: [position, events]
apply_rate(rate, events) ==
    LET frst == events[1]
        frst_pos == position_quantized_to(frst.position, TUPLET_QUANTIZE)
        Scaled(i) ==
            IF i = 1
            THEN [frst EXCEPT
                    !.length = limit_denominator(
                        FMul(get_quantized_to(frst.length, TUPLET_QUANTIZE), rate),
                        LIMIT_DENOMINATOR),
                    !.position = RelativePosition(
                        frst.position.measure_index, Zero)]
            ELSE [events[i] EXCEPT
                    !.position = RelativePosition(
                        events[i].position.measure_index,
                        limit_denominator(
                            FMul(FSub(position_quantized_to(events[i].position,
                                                            TUPLET_QUANTIZE),
                                      frst_pos), rate),
                            LIMIT_DENOMINATOR)),
                    !.length = limit_denominator(
                        FMul(get_quantized_to(events[i].length, TUPLET_QUANTIZE),
                             rate),
                        LIMIT_DENOMINATOR)]
    IN  [position |-> frst.position,
         events |-> [i \in 1..Len(events) |-> Scaled(i)]]

RECURSIVE Container_insert(_, _)
RECURSIVE InsertAll(_, _, _)

\* event.rs Tuplet::new, line 745: one insert of the loop; its result is
\* dropped: [tag, self], tag "Panic" if the insert aborted
InsertNext(r, events, i) ==
    IF r.res.tag = "Panic" THEN [tag |-> "Panic", self |-> r.self]
    ELSE InsertAll(r.self, events, i + 1)

\* event.rs Tuplet::new, line 745: every event is inserted
InsertAll(container, events, i) ==
    IF i > Len(events) THEN [tag |-> "Ok", self |-> container]
    ELSE InsertNext(Container_insert(container, events[i]), events, i)

\* event.rs Tuplet::new, lines 734-751: the tuplet around the filled
\* container: [tag, tuplet]
Tuplet_of(rate, pos, length, filled) ==
    [tag |-> filled.tag,
     tuplet |-> [rate |-> rate, container |-> filled.self,
                 position |-> pos, length |-> length]]

\* event.rs Tuplet::new, lines 734-745: the container sized by the last
\* scaled event
Tuplet_sized(rate, scaled, length) ==
    Tuplet_of(rate, scaled.position, length,
              InsertAll(Container_empty(
                            RelativePosition(scaled.position.measure_index, Zero),
                            length),
                        scaled.events, 1))

\* event.rs Tuplet::new, lines 733-736
Tuplet_scaled(rate, scaled) ==
    Tuplet_sized(rate, scaled,
                 FAdd(position_quantized(scaled.events[Len(scaled.events)].position),
                      get_quantized(scaled.events[Len(scaled.events)].length)))

\* event.rs Tuplet::new: [tag, tuplet]
Tuplet_new(rate, events) == Tuplet_scaled(rate, apply_rate(rate, events))

\* event.rs EventInfo::convert_to_tuplet, lines 73-76: [tag, event]
Tuplet_wrap(plain, t) ==
    [tag |-> t.tag, event |-> [plain EXCEPT !.event = TupletPayload(t.tuplet)]]

\* event.rs EventInfo::convert_to_tuplet: [tag, event]
convert_to_tuplet(event, rate) ==
    IF event.event.kind = "Tuplet" THEN [tag |-> "Ok", event |-> event]
    ELSE Tuplet_wrap([event EXCEPT !.tuplet_type = NonTuplet],
                     Tuplet_new(rate, <<[event EXCEPT !.tuplet_type = NonTuplet]>>))

\* event.rs EventInfo::quantize_end with the default denominator
quantize_end(event) ==
    [event EXCEPT !.length =
        FSub(limit_denominator(FAdd(position(event.position), event.length),
                               LIMIT_DENOMINATOR),
             position(event.position))]

\* event.rs Tuplet::push, line 761: the result of the inner insert
Tuplet_pushed(self, r) ==
    [tag |-> r.res.tag, self |-> [self EXCEPT !.container = r.self]]

\* event.rs Tuplet::push, lines 756-761, after set_end_position (ended)
Tuplet_push_ended(ended, event) ==
    IF ended.tag # "Ok" THEN ended
    ELSE Tuplet_pushed(ended.self,
                       Container_insert(ended.self.container,
                                        apply_rate_to_event(ended.self, event)))

\* event.rs Tuplet::push: [tag, self]
Tuplet_push(self, event) ==
    Tuplet_push_ended(Tuplet_set_end_position(self, end_position(event)), event)

\* container.rs Container::resolve_event_overlaps, lines 282-283: the head
\* cut from the inserted event
Container_cut_event(events, c) ==
    [tag |-> c.tag, events |-> events, event |-> c.self,
     append_to_self |-> c.head]

\* container.rs Container::resolve_event_overlaps, lines 288-291: the head
\* cut from the stored event
Container_cut_stored(events, event, idx, c) ==
    IF c.tag # "Ok"
    THEN [tag |-> c.tag, events |-> events, event |-> event,
          append_to_self |-> None]
    ELSE [tag |-> "Ok",
          events |-> InsertAt([events EXCEPT ![idx] = c.self], idx + 1, c.head[1]),
          event |-> event, append_to_self |-> None]

\* a faulty resolve_event_overlaps: an inserted Tuplet event that outlasts
\* the slot is cut like any other event
Container_resolve_event_overlaps_cutting(events, event, idx) ==
    IF outlasts(event, events[idx]) # None
    THEN Container_cut_event(
             events, cut_head(event, outlasts(event, events[idx])[1]))
    ELSE IF outlasts(events[idx], event) # None
    THEN Container_cut_stored(
             events, event, idx,
             cut_head(events[idx], outlasts(events[idx], event)[1]))
    ELSE [tag |-> "Ok", events |-> events, event |-> event,
          append_to_self |-> None]

\* container.rs Container::resolve_event_overlaps:
\* [tag, events, event, append_to_self]
Container_resolve_event_overlaps(events, event, idx) ==
    IF outlasts(event, events[idx]) # None
    THEN IF event.event.kind = "Tuplet"
         THEN [tag |-> "Ok", events |-> events, event |-> event,
               append_to_self |-> None]
         ELSE Container_cut_event(
                  events, cut_head(event, outlasts(event, events[idx])[1]))
    ELSE IF outlasts(events[idx], event) # None
    THEN Container_cut_stored(
             events, event, idx,
             cut_head(events[idx], outlasts(events[idx], event)[1]))
    ELSE [tag |-> "Ok", events |-> events, event |-> event,
          append_to_self |-> None]

\* container.rs Container::insert, lines 183-187: the event pushed into a
\* copy of the tuplet of the slot
Container_merge_tuplet(r) == [tag |-> r.tag, event |-> TupletPayload(r.self)]

\* container.rs Container::insert, lines 175-182: the event pushed into the
\* chord of the slot
Container_merge_chord(r) == [tag |-> r.tag, event |-> Chord(r.notes)]

\* container.rs Container::insert, lines 173-188: the payload of the slot
\* after the merge: [tag, event]
Container_merge(current, event) ==
    CASE current.kind = "Rest" -> [tag |-> "Ok", event |-> event.event]
      [] current.kind = "Chord" ->
            Container_merge_chord(Chord_push(current.notes, event.event))
      [] current.kind = "Note" ->
            Container_merge_chord(Chord_push(<<current.note>>, event.event))
      [] current.kind = "Tuplet" ->
            Container_merge_tuplet(Tuplet_push(current.tuplet, event))

\* container.rs Container::insert, lines 232-248: the result of the recursive
\* insert; a head coming back from it is unexpected
Container_unexpected(rec, ret) ==
    IF rec.res.tag # "Ok" THEN rec
    ELSE IF rec.res.head = None THEN [self |-> rec.self, res |-> Ok(ret)]
    ELSE [self |-> rec.self, res |-> Err]

\* container.rs Container::insert, lines 219-238: the head cut at the end of
\* the container, its left part inserted, its right part returned
Container_cut_overflow(self, c) ==
    IF c.tag # "Ok" THEN [self |-> self, res |-> Fail(c.tag)]
    ELSE Container_unexpected(
             Container_insert(self, c.self),
             Some(ToNextMeasure(c.head[1], self.position.measure_index)))

\* container.rs Container::insert, lines 194-250: what is done with the head
\* cut from the inserted event
Container_append_to_self(self, head) ==
    IF position_quantized(head.position) = get_quantized(self.length)
    THEN [self |-> self,
          res |-> Ok(Some(ToNextMeasure(head, self.position.measure_index)))]
    ELSE IF FLt(get_quantized(self.length),
                position_quantized(end_position(head)))
    THEN Container_cut_overflow(
             self, cut_head_at_position(
                       head, RelativePosition(self.position.measure_index,
                                              get_quantized(self.length))))
    ELSE Container_unexpected(Container_insert(self, head), None)

\* container.rs Container::insert, lines 173-193: the slot at idx takes the
\* merged payload r3
Container_set_event(self, idx, append_to_self, r3) ==
    IF r3.tag # "Ok" THEN [self |-> self, res |-> Fail(r3.tag)]
    ELSE IF append_to_self = None
    THEN [self |-> [self EXCEPT !.events[idx].event = r3.event],
          res |-> Ok(None)]
    ELSE Container_append_to_self(
             [self EXCEPT !.events[idx].event = r3.event], append_to_self[1])

\* a faulty cut of the slot at the start of the event: the new slot of the
\* event is stored in front of the slot it was cut from
Container_cut_current_in_front(self, r1, idx0, r2) ==
    IF r2.tag # "Ok"
    THEN [self |-> [self EXCEPT !.events = r1.events], res |-> Fail(r2.tag)]
    ELSE Container_set_event(
             [self EXCEPT !.events =
                 InsertAt([r1.events EXCEPT ![idx0] = r2.self],
                          idx0, r2.head[1])],
             idx0, r1.append_to_self,
             Container_merge(r2.head[1].event, r1.event))

\* container.rs Container::insert, lines 161-165: the slot cut at the start
\* of the event (r2), the event goes to the new slot idx0 + 1
Container_cut_current(self, r1, idx0, r2) ==
    IF r2.tag # "Ok"
    THEN [self |-> [self EXCEPT !.events = r1.events], res |-> Fail(r2.tag)]
    ELSE Container_set_event(
             [self EXCEPT !.events =
                 InsertAt([r1.events EXCEPT ![idx0] = r2.self],
                          idx0 + 1, r2.head[1])],
             idx0 + 1, r1.append_to_self,
             Container_merge(r2.head[1].event, r1.event))

\* a faulty alignment: the slot found is not cut at the start of the event,
\* the whole slot takes the payload
Container_align_uncut(self, r1, idx0) ==
    IF r1.tag # "Ok" THEN [self |-> self, res |-> Fail(r1.tag)]
    ELSE Container_set_event(
             [self EXCEPT !.events = r1.events], idx0, r1.append_to_self,
             Container_merge(r1.events[idx0].event, r1.event))

\* container.rs Container::insert, lines 154-189: after
\* resolve_event_overlaps (r1)
Container_align(self, r1, idx0) ==
    IF r1.tag # "Ok" THEN [self |-> self, res |-> Fail(r1.tag)]
    ELSE IF r1.events[idx0].position # r1.event.position
    THEN Container_cut_current(
             self, r1, idx0,
             cut_head_at_position(r1.events[idx0], r1.event.position))
    ELSE Container_set_event(
             [self EXCEPT !.events = r1.events], idx0, r1.append_to_self,
             Container_merge(r1.events[idx0].event, r1.event))

\* container.rs Container::insert, lines 146-251: placement of the event
\* among the stored events: [self, res]
Container_place(self, event) ==
    LET found == {i \in 1..Len(self.events) :
                     contains_pos(self.events[i], event.position)}
    IN  IF found = {} THEN [self |-> self, res |-> Err]
        ELSE Container_align(
                 self,
                 Container_resolve_event_overlaps(self.events, event, Min(found)),
                 Min(found))

\* container.rs Container::insert, lines 98-105: the event becomes the
\* pending tuplet (t: the event converted)
Container_tuplet_start(self, t) ==
    IF t.tag # "Ok" THEN [self |-> self, res |-> Panic]
    ELSE [self |-> [self EXCEPT !.tuplet =
              Some([t.event EXCEPT !.position.measure_position =
                       position_quantized(t.event.position)])],
          res |-> Ok(None)]

\* a faulty delegation: the event is pushed into a clone of the pending
\* tuplet and the pending tuplet itself is left as it was
Container_tuplet_push_clone(self, r) ==
    [self |-> self,
     res |-> IF r.tag = "Ok" THEN Ok(None) ELSE Fail(r.tag)]

\* container.rs Container::insert, lines 106-118: the event pushed into the
\* pending tuplet (r: the result of the push)
Container_tuplet_push(self, r) ==
    [self |-> [self EXCEPT !.tuplet =
         Some([self.tuplet[1] EXCEPT !.event = TupletPayload(r.self)])],
     res |-> IF r.tag = "Ok" THEN Ok(None) ELSE Fail(r.tag)]

\* a faulty end of tuplet: the taken tuplet event is placed with the length
\* of its first event, not stretched to the end of the tuplet
Container_tuplet_end_unstretched(self, r) ==
    IF r.tag # "Ok"
    THEN [self |-> [self EXCEPT !.tuplet =
             Some([self.tuplet[1] EXCEPT !.event = TupletPayload(r.self)])],
          res |-> Fail(r.tag)]
    ELSE Container_place(
             [self EXCEPT !.tuplet = None],
             [self.tuplet[1] EXCEPT !.event = TupletPayload(r.self)])

\* a faulty end of tuplet: the tuplet is placed but stays pending
Container_tuplet_end_keeping(self, r) ==
    IF r.tag # "Ok"
    THEN [self |-> [self EXCEPT !.tuplet =
             Some([self.tuplet[1] EXCEPT !.event = TupletPayload(r.self)])],
          res |-> Fail(r.tag)]
    ELSE Container_place(
             self,
             [self.tuplet[1] EXCEPT
                 !.event = TupletPayload(r.self),
                 !.length = FSub(position(Tuplet_end_position(r.self)),
                                 position(self.tuplet[1].position))])

\* container.rs Container::insert, lines 123-143: the end event pushed (r),
\* the pending tuplet taken, stretched to its end and placed
Container_tuplet_end(self, r) ==
    IF r.tag # "Ok"
    THEN [self |-> [self EXCEPT !.tuplet =
             Some([self.tuplet[1] EXCEPT !.event = TupletPayload(r.self)])],
          res |-> Fail(r.tag)]
    ELSE Container_place(
             [self EXCEPT !.tuplet = None],
             [self.tuplet[1] EXCEPT
                 !.event = TupletPayload(r.self),
                 !.length = FSub(position(Tuplet_end_position(r.self)),
                                 position(self.tuplet[1].position))])

\* container.rs Container::insert, lines 84-145: the tuplet markers first,
\* then the placement: [self, res]
Container_insert(self, event) ==
    CASE event.tuplet_type.kind = "TupletStart" ->
            Container_tuplet_start(
                self, convert_to_tuplet(event, event.tuplet_type.rate))
      [] event.tuplet_type.kind = "NonTuplet" /\ self.tuplet # None ->
            Container_tuplet_push(
                self, Tuplet_push(self.tuplet[1].event.tuplet, event))
      [] event.tuplet_type.kind = "TupletEnd" /\ self.tuplet # None ->
            Container_tuplet_end(
                self,
                Tuplet_push(self.tuplet[1].event.tuplet,
                            [quantize_end(event) EXCEPT !.tuplet_type = NonTuplet]))
      [] OTHER -> Container_place(self, event)

(***************************************************************************)
(* The recursion of insert: the events handed to the calls of one insert,  *)
(* the outer call first.                                                   *)
(***************************************************************************)
\* container.rs Container::insert, lines 146-193: the container and the
\* head cut from the event at the point where the slot has taken its
\* payload; None where the call ends before or has no head
Container_before_append(self, event) ==
    LET found == {i \in 1..Len(self.events) :
                     contains_pos(self.events[i], event.position)}
        r1 == Container_resolve_event_overlaps(self.events, event, Min(found))
        stored == Container_align(
                      self, [r1 EXCEPT !.append_to_self = None], Min(found))
    IN  IF found = {} THEN None
        ELSE IF r1.tag # "Ok" \/ r1.append_to_self = None THEN None
        ELSE IF stored.res.tag # "Ok" THEN None
        ELSE Some([self |-> stored.self, head |-> r1.append_to_self[1]])

\* container.rs Container::insert, lines 194-250: the event given to the
\* recursive insert: the head, or its part up to the end of the container;
\* None where the head is returned or the cut fails
Container_reinserted(self, head) ==
    IF position_quantized(head.position) = get_quantized(self.length)
    THEN None
    ELSE IF FLt(get_quantized(self.length),
                position_quantized(end_position(head)))
    THEN LET c == cut_head_at_position(
                      head, RelativePosition(self.position.measure_index,
                                             get_quantized(self.length)))
         IN  IF c.tag # "Ok" THEN None ELSE Some(c.self)
    ELSE Some(head)

\* container.rs Container::insert, lines 146-251: the events of the calls
\* that place an event
RECURSIVE Container_place_calls(_, _)
Container_place_calls(self, event) ==
    LET at == Container_before_append(self, event)
        next == IF at = None THEN None
                ELSE Container_reinserted(at[1].self, at[1].head)
    IN  IF next = None THEN <<event>>
        ELSE <<event>> \o Container_place_calls(at[1].self, next[1])

\* container.rs Container::insert: the events of the calls of one insert.
\* A marker event or an event pushed into the pending tuplet is not
\* re-inserted; the Tuplet event placed at a TupletEnd is never cut
\* (resolve_event_overlaps), so it leaves no head
Container_calls(self, event) ==
    IF \/ event.tuplet_type.kind = "TupletStart"
       \/ self.tuplet # None
    THEN <<event>>
    ELSE Container_place_calls(self, event)

\* measure.rs Measure::insert, lines 240-275: the measure and the head cut
\* from the event at the point where the slot has taken its payload
Measure_before_append(self, event) ==
    LET found == {i \in 1..Len(self.events) :
                     contains_pos(self.events[i], event.position)}
        r1 == Measure_resolve_event_overlaps(self.events, event, Min(found))
        stored == Measure_align(
                      self, [r1 EXCEPT !.append_to_self = None], Min(found))
    IN  IF found = {} THEN None
        ELSE IF r1.tag # "Ok" \/ r1.append_to_self = None THEN None
        ELSE IF stored.res.tag # "Ok" THEN None
        ELSE Some([self |-> stored.self, head |-> r1.append_to_self[1]])

\* measure.rs Measure::insert, lines 276-319: the event given to the
\* recursive insert
Measure_reinserted(self, head) ==
    IF get_position(head.position) = self.length THEN None
    ELSE IF FLt(self.length, get_position(get_end_position(head)))
    THEN LET c == cut_head_at_position(
                      head, RelativePosition(self.index, self.length))
         IN  IF c.tag # "Ok" THEN None ELSE Some(c.self)
    ELSE Some(head)

\* measure.rs Measure::insert: the events of the calls of one insert
RECURSIVE Measure_calls(_, _)
Measure_calls(self, event) ==
    LET at == Measure_before_append(self, event)
        next == IF at = None THEN None
                ELSE Measure_reinserted(at[1].self, at[1].head)
    IN  IF next = None THEN <<event>>
        ELSE <<event>> \o Measure_calls(at[1].self, next[1])

\* dom/mod.rs Voice::insert_event: the calls of one insert_event, the outer
\* one first: the measure index each call targets and the events of the
\* calls of Measure::insert it makes there (none where the measure is
\* missing)
RECURSIVE Voice_calls(_, _)
Voice_calls(self, event) ==
    LET index == IF event.position.measure_index < self.begin_measure
                 THEN self.begin_measure
                 ELSE event.position.measure_index
        given_event ==
            IF event.position.measure_index < self.begin_measure
            THEN [event EXCEPT !.position =
                     RelativePosition(self.begin_measure, Zero)]
            ELSE event
        k == index - self.begin_measure + 1
        r == Measure_insert(self.measures[k], given_event)
    IN  IF k > Len(self.measures)
        THEN <<[index |-> index, inserts |-> <<>>]>>
        ELSE <<[index |-> index,
                inserts |-> Measure_calls(self.measures[k], given_event)]>>
             \o IF r.res.tag = "Ok" /\ r.res.head # None
                THEN Voice_calls([self EXCEPT !.measures[k] = r.self],
                                 r.res.head[1])
                ELSE <<>>

(***************************************************************************)
(* fraction_tools.rs: power_of_two and normalize_fraction.  A VecDeque is  *)
(* a sequence; push_front prepends, push_back appends.                     *)
(***************************************************************************)
RECURSIVE Pow2(_)
Pow2(i) == IF i = 0 THEN 1 ELSE 2 * Pow2(i - 1)

\* fraction_tools.rs power_of_two: Option<u64>
power_of_two(num) ==
    IF num > 1
    THEN LET hits == {i \in 1..(num - 1) : Pow2(i) >= num}
         IN  IF hits = {} THEN None ELSE Some(Pow2(Min(hits) - 1))
    ELSE IF num = 1 THEN Some(num) ELSE None

\* fraction_tools.rs normalize_fraction
RECURSIVE normalize_fraction(_, _)
\* a faulty decomposition: the whole part is not pushed before the
\* remainder is decomposed
normalize_fraction_drops_whole(frac, head) ==
    LET num == Numer(frac)
        den == Denom(frac)
    IN  IF num = 0 THEN head
        ELSE IF den = 1 \/ num < 5 THEN Append(head, frac)
        ELSE IF num = power_of_two(num)[1] THEN Append(head, frac)
        ELSE LET num_nr == power_of_two(num)[1]
                 whole == Frac(num_nr, den)
                 remainder == Frac(num - num_nr, den)
             IN  IF Numer(remainder) > 3
                 THEN normalize_fraction(remainder, head)
                 ELSE <<remainder, whole>> \o head

normalize_fraction(frac, head) ==
    LET num == Numer(frac)
        den == Denom(frac)
    IN  IF num = 0 THEN head
        ELSE IF den = 1 \/ num < 5 THEN Append(head, frac)
        ELSE IF num = power_of_two(num)[1] THEN Append(head, frac)
        ELSE LET num_nr == power_of_two(num)[1]
                 whole == Frac(num_nr, den)
                 remainder == Frac(num - num_nr, den)
             IN  IF Numer(remainder) > 3
                 THEN normalize_fraction(remainder, Append(head, whole))
                 ELSE <<remainder, whole>> \o head

(***************************************************************************)
(* measure.rs Measure::get_events_normalized with event.rs                 *)
(* EventInfo::overlaps and EventInfo::with_normalized_length.              *)
(***************************************************************************)
\* event.rs EventInfo::overlaps
overlaps(e, other) ==
    /\ e.position.measure_index = other.position.measure_index
    /\ \/ FAdd(position(other.position), other.length)
             = FAdd(position(e.position), e.length)
       \/ position(other.position) = position(e.position)
       \/ IF FLt(position(e.position), position(other.position))
          THEN FLt(position(other.position),
                   FAdd(position(e.position), e.length))
          ELSE FLt(position(e.position),
                   FAdd(position(other.position), other.length))

RECURSIVE Reverse(_)
Reverse(s) == IF s = <<>> THEN <<>> ELSE Append(Reverse(Tail(s)), Head(s))

\* event.rs EventInfo::with_normalized_length, lines 325-343: one event per
\* length; every event but the last holds the left part of a split
RECURSIVE NormalizedFrom(_, _, _, _)
NormalizedFrom(payload, pos, lengths, i) ==
    IF i > Len(lengths) THEN <<>>
    ELSE IF i = Len(lengths) THEN <<EventInfo(pos, lengths[i], payload)>>
    ELSE <<EventInfo(pos, lengths[i], split(payload)[1])>>
         \o NormalizedFrom(
                split(payload)[2],
                RelativePosition(pos.measure_index,
                                 FAdd(position_quantized(pos), lengths[i])),
                lengths, i + 1)

\* event.rs EventInfo::with_normalized_length (lengths: the normalized
\* quantized length)
with_lengths(e, lengths) ==
    IF Len(lengths) = 1 \/ e.event.kind = "Tuplet" THEN <<e>>
    ELSE NormalizedFrom(e.event, e.position, Reverse(lengths), 1)

with_normalized_length(e) ==
    with_lengths(e, normalize_fraction(get_quantized(e.length), <<>>))

\* measure.rs Measure::get_events_normalized, lines 69-85: one Rest per beat
ts_events(self) ==
    [idx \in 1..self.time_signature.numerator |->
        EventInfo(RelativePosition(self.index,
                                   Frac(idx - 1, self.time_signature.denominator)),
                  Frac(1, self.time_signature.denominator), Rest)]

\* measure.rs Measure::get_events_normalized, lines 88-143: the event met
\* with the beats from j on; acc: the fragments so far: [tag, events]
RECURSIVE normalize_over_beats(_, _, _, _)

\* a faulty cut at the end of a beat: the first part is emitted and the
\* head is dropped
normalize_cut_drops_head(acc, c, ts, j) ==
    IF c.tag # "Ok" THEN [tag |-> c.tag, events |-> acc]
    ELSE [tag |-> "Ok", events |-> acc \o with_normalized_length(c.self)]

\* lines 100-104: the event is cut at the end of the beat (c), its first
\* part is emitted and the head goes on to the next beat
normalize_cut(acc, c, ts, j) ==
    IF c.tag # "Ok" THEN [tag |-> c.tag, events |-> acc]
    ELSE normalize_over_beats(acc \o with_normalized_length(c.self),
                              c.head[1], ts, j + 1)

\* a faulty beat test: an event that outlasts the beat is cut at its end
\* also when it started before the beat
normalize_inside_always_cuts(acc, event, ts, j) ==
    IF outlasts(event, ts[j]) = None
    THEN [tag |-> "Ok", events |-> acc \o with_normalized_length(event)]
    ELSE normalize_cut(acc, cut_head(event, outlasts(event, ts[j])[1]), ts, j)

\* lines 92-106: the event does not start where the beat starts
normalize_inside(acc, event, ts, j) ==
    IF outlasts(event, ts[j]) = None
    THEN [tag |-> "Ok", events |-> acc \o with_normalized_length(event)]
    ELSE IF ~PosLe(event.position, ts[j].position)
    THEN normalize_cut(acc, cut_head(event, outlasts(event, ts[j])[1]), ts, j)
    ELSE normalize_over_beats(acc, event, ts, j + 1)

\* lines 108-138: the event starts where the beat starts
normalize_on_beat(acc, event, ts, j) ==
    IF \/ FAdd(get_position(event.position), event.length)
             = FAdd(get_position(ts[j].position), ts[j].length)
       \/ outlasts(event, ts[j]) = None
    THEN [tag |-> "Ok", events |-> acc \o with_normalized_length(event)]
    ELSE normalize_over_beats(acc, event, ts, j + 1)

normalize_over_beats(acc, event, ts, j) ==
    IF j > Len(ts) THEN [tag |-> "Ok", events |-> acc]
    ELSE IF ~overlaps(ts[j], event)
    THEN normalize_over_beats(acc, event, ts, j + 1)
    ELSE IF event.position = ts[j].position
    THEN normalize_on_beat(acc, event, ts, j)
    ELSE normalize_inside(acc, event, ts, j)

\* measure.rs Measure::get_events_normalized, lines 86-145: the stored
\* events from i on: [tag, events]
RECURSIVE normalize_events(_, _, _, _)
normalize_next(r, events, ts, i) ==
    IF r.tag # "Ok" THEN r ELSE normalize_events(r.events, events, ts, i + 1)

normalize_events(acc, events, ts, i) ==
    IF i > Len(events) THEN [tag |-> "Ok", events |-> acc]
    ELSE normalize_next(normalize_over_beats(acc, events[i], ts, 1),
                        events, ts, i)

\* measure.rs Measure::get_events_normalized: [tag, events]
get_events_normalized(self) ==
    normalize_events(<<>>, self.events, ts_events(self), 1)

(***************************************************************************)

(* State.  One run fills either a Measure (measure.rs) or a Container      *)
(* (container.rs) by insert calls, as Voice::insert_event does; a second   *)
(* specification applies normalize_fraction to one length.                 *)
(***************************************************************************)
VARIABLES
    subject,      \* "Measure" or "Container": the object the run fills
    measure,      \* the Measure
    container,    \* the Container
    before,       \* events, pending tuplet and length before the last insert
    inserted,     \* Option: the event of the last insert call
    result,       \* the result of the last insert call
    all_ok,       \* every insert call so far returned Ok
    calls,        \* number of insert calls made
    since_start,  \* pitches inserted since a TupletStart opened a tuplet
    nested,       \* a TupletStart arrived while a tuplet was pending
    frac,         \* the fraction given to the fraction tools
    parts,        \* Option: the result of normalize_fraction
    reparts,      \* Option: normalize_fraction of every element of parts
    quantized,    \* Option: [limit, value] of limit_denominator(frac, limit)
    requantized,  \* Option: limit_denominator applied to quantized
    normalized,   \* Option: the result of get_events_normalized
    given,        \* the events given to Tuplet::new
    scaled,       \* Option: the result of Tuplet::apply_rate on given
    tuplet,       \* Option: [tag, self], the Tuplet after the last call
    ended,        \* Option: [by, end, back] of the last call that moved the end
    ev,           \* the event given to cut_head / cut_head_at_position
    cut,          \* Option: [by, arg, res] of the cut made on ev
    voice,        \* the Voice: [begin_measure, measures]
    voice_call,   \* Option: [event, before, tag] of the last insert_event
    operands,     \* the pair of fractions given to the operators
    outcome,      \* Option: [by, res] of the operator applied to operands
    time_map,     \* the TimeMap positions are converted with
    converted,    \* Option: [by, arg, res, back] of the last conversion
    notated,      \* Option: the last notation call, its input and results
    window,       \* the PreviewWindow: its fields and its render_lag
    now,          \* the time of the host, in milliseconds
    polled        \* Option: [before, observed, parsed] of the last timer poll

vars == <<subject, measure, container, before, inserted, result, all_ok,
          calls, since_start, nested, frac, parts, reparts, quantized,
          requantized, normalized, given, scaled, tuplet, ended, ev, cut,
          voice, voice_call, operands, outcome, time_map, converted,
          notated, window, now, polled>>

\* the state of the runs of insert calls
insert_vars == <<subject, measure, container, before, inserted, result,
                 all_ok, calls, since_start, nested, normalized>>

\* the state of the fraction tools
fraction_vars == <<frac, parts, reparts, quantized, requantized>>

\* the state of the Tuplet built outside a container
tuplet_vars == <<given, scaled, tuplet, ended>>

\* the state of the Voice
voice_vars == <<voice, voice_call>>

\* the state of the operators of Length and RelativePosition
operator_vars == <<operands, outcome>>

\* the state of the position conversions of a TimeMap
time_map_vars == <<time_map, converted>>

\* the state of the preview window and of the host it polls
preview_vars == <<window, now, polled>>

\* the state of the calls on primitives outside a container
primitive_vars == <<ev, cut, voice_vars, operator_vars, time_map_vars,
                    notated, preview_vars>>

\* preview_window.rs PreviewWindow::init: the fields check_item reads and
\* writes, render, and render_lag and code of the stored State; hash and
\* cursor_pos are Default, last_render is the time of init
PreviewWindow_init ==
    [hash |-> "", cursor_pos |-> 0, last_render |-> 0,
     ready_for_render |-> FALSE, render |-> TRUE,
     render_lag |-> 500, code |-> "c'"]

\* tests/measure.rs: Measure::new(1, TimeSignature::new(4, 4))
MeasureIndex == 1
TimeSig == [numerator |-> 4, denominator |-> 4]
\* the time signatures of the measures: 4/4, and 5/2 with beats of a half
\* note and a measure longer than two whole notes
TimeSignatures == {TimeSig, [numerator |-> 5, denominator |-> 2]}
\* the Container of a 2/4 measure
ContainerLength == Frac(2, 4)

Note_c3 == NoteOf(60, FALSE)
Note_d3 == NoteOf(62, TRUE)
Notes == {Note_c3, Note_d3}

Event(offset, len, n, tuplet_type) ==
    [EventInfo(RelativePosition(MeasureIndex, offset), len, Note(n))
        EXCEPT !.tuplet_type = tuplet_type]

\* events given to Measure::insert: quarters and dotted halves on the
\* quarter grid
MeasureEvents ==
    {Event(Frac(k, 4), Frac(l, 4), n, NonTuplet) :
        k \in 0..3, l \in {1, 3}, n \in Notes}

\* events given to Container::insert: eighths and quarters on the eighth
\* grid, one quarter starting 1/512 after 1/4, and the events of triplets
Triplet == Frac(3, 2)
PlainEvents ==
    {Event(Frac(k, 8), Frac(l, 8), n, NonTuplet) :
        k \in {0, 1, 3}, l \in 1..2, n \in Notes}
    \cup {Event(Frac(129, 512), Frac(1, 4), Note_c3, NonTuplet)}
TupletEvents ==
    {Event(Zero, Frac(1, 12), Note_c3, TupletStart(Triplet)),
     Event(Frac(1, 12), Frac(1, 12), Note_d3, TupletStart(Triplet)),
     Event(Frac(1, 12), Frac(1, 12), Note_d3, NonTuplet),
     Event(Frac(1, 6), Frac(1, 12), Note_c3, TupletEnd),
     Event(Frac(1, 6), Frac(1, 12), Note_d3, TupletEnd)}
ContainerEvents == PlainEvents \cup TupletEvents

\* fractions given to normalize_fraction and limit_denominator: on the
\* 1/128 grid, thirds, and the off-grid denominators of
\* test_limit_denominator
Fractions ==
    {Frac(n, d) : n \in 0..MaxNumer,
                  d \in {1, 2, 3, 4, 8, 16, 32, 64, 128, 25, 129, 256}}

\* test_limit_denominator: the limits 10, 100 and LIMIT_DENOMINATOR
Limits == {10, 100, LIMIT_DENOMINATOR}

\* dom/mod.rs tests: the measures 3, 4 and 5 of the time map of test_voice
VoiceBegin == 3
VoiceMeasures ==
    <<[index |-> 3, time_signature |-> [numerator |-> 4, denominator |-> 4]],
      [index |-> 4, time_signature |-> [numerator |-> 7, denominator |-> 8]],
      [index |-> 5, time_signature |-> [numerator |-> 9, denominator |-> 8]]>>

\* dom/mod.rs tests: the MeasureInfo of these measures
VoiceMeasureInfos ==
    [k \in 1..Len(VoiceMeasures) |->
        MeasureInfo_new(VoiceMeasures[k].index,
                        VoiceMeasures[k].time_signature)]

\* no event: the Rest of no length that fills ev where no event is cut
NoEvent == EventInfo(RelativePosition(MeasureIndex, Zero), Zero, Rest)

Fresh(s, ts) ==
    /\ subject = s
    /\ measure = Measure_new(MeasureIndex, ts.numerator, ts.denominator)
    /\ container = Container_empty(RelativePosition(MeasureIndex, Zero),
                                   ContainerLength)
    /\ before = [events |-> <<>>, tuplet |-> None, length |-> Zero]
    /\ inserted = None
    /\ result = Ok(None)
    /\ all_ok = TRUE
    /\ calls = 0
    /\ since_start = {}
    /\ nested = FALSE
    /\ parts = None
    /\ reparts = None
    /\ quantized = None
    /\ requantized = None
    /\ normalized = None
    /\ scaled = None
    /\ tuplet = None
    /\ ended = None
    /\ cut = None
    /\ voice = Voice_from(VoiceMeasures, VoiceBegin)
    /\ voice_call = None
    /\ outcome = None
    /\ converted = None
    /\ notated = None
    /\ window = PreviewWindow_init
    /\ now = 0
    /\ polled = None

Init ==
    /\ \/ \E ts \in TimeSignatures : Fresh("Measure", ts)
       \/ Fresh("Container", TimeSig)
    /\ frac = Zero
    /\ given = <<>>
    /\ ev = NoEvent
    /\ operands = <<Zero, Zero>>
    /\ time_map = TimeMap_new(VoiceMeasureInfos, AbsolutePosition(Zero))

\* one Measure::insert call; the caller stops at the first error
\* (dom/mod.rs, Voice::insert_event)
MeasureInsert(event) ==
    /\ subject = "Measure"
    /\ calls < MaxInserts
    /\ all_ok
    /\ LET r == Measure_insert(measure, event)
       IN  /\ measure' = r.self
           /\ result' = r.res
           /\ all_ok' = (r.res.tag = "Ok")
    /\ before' = [events |-> measure.events, tuplet |-> None,
                   length |-> measure.length]
    /\ inserted' = Some(event)
    /\ calls' = calls + 1
    /\ normalized' = None
    /\ UNCHANGED <<subject, container, since_start, nested, fraction_vars,
                   tuplet_vars, primitive_vars>>

\* one Measure::get_events_normalized call on a measure filled without
\* error
GetEventsNormalized ==
    /\ subject = "Measure"
    /\ all_ok
    /\ normalized = None
    /\ normalized' = Some(get_events_normalized(measure))
    /\ UNCHANGED <<subject, measure, container, before, inserted, result,
                   all_ok, calls, since_start, nested, fraction_vars,
                   tuplet_vars, primitive_vars>>

\* one Container::insert call
ContainerInsert(event) ==
    /\ subject = "Container"
    /\ calls < MaxInserts
    /\ all_ok
    /\ LET r == Container_insert(container, event)
       IN  /\ container' = r.self
           /\ result' = r.res
           /\ all_ok' = (r.res.tag = "Ok")
    /\ before' = [events |-> container.events, tuplet |-> container.tuplet,
                   length |-> container.length]
    /\ inserted' = Some(event)
    /\ calls' = calls + 1
    /\ since_start' =
          IF event.tuplet_type.kind = "TupletStart" /\ container.tuplet = None
          THEN {event.event.note.pitch}
          ELSE IF container.tuplet # None
          THEN since_start \cup {event.event.note.pitch}
          ELSE since_start
    /\ nested' = (nested \/ (event.tuplet_type.kind = "TupletStart"
                             /\ container.tuplet # None))
    /\ UNCHANGED <<subject, measure, normalized, fraction_vars, tuplet_vars,
                   primitive_vars>>

Next ==
    \/ \E event \in MeasureEvents : MeasureInsert(event)
    \/ GetEventsNormalized
    \/ \E event \in ContainerEvents : ContainerInsert(event)

Spec == Init /\ [][Next]_vars

\* the specification of the fraction tools: one fraction in, its parts and
\* its quantized value out
InitFraction ==
    /\ Fresh("Container", TimeSig)
    /\ frac \in Fractions
    /\ given = <<>>
    /\ ev = NoEvent
    /\ operands = <<Zero, Zero>>
    /\ time_map = TimeMap_new(VoiceMeasureInfos, AbsolutePosition(Zero))

Normalize ==
    /\ parts = None
    /\ parts' = Some(normalize_fraction(frac, <<>>))
    /\ UNCHANGED <<insert_vars, tuplet_vars, primitive_vars, frac, reparts, quantized, requantized>>

\* normalize_fraction applied again, to every element of the result
Renormalize ==
    /\ parts # None
    /\ reparts = None
    /\ reparts' = Some([i \in 1..Len(parts[1]) |->
                          normalize_fraction(parts[1][i], <<>>)])
    /\ UNCHANGED <<insert_vars, tuplet_vars, primitive_vars, frac, parts, quantized, requantized>>

Quantize(limit) ==
    /\ quantized = None
    /\ quantized' = Some([limit |-> limit,
                          value |-> limit_denominator(frac, limit)])
    /\ UNCHANGED <<insert_vars, tuplet_vars, primitive_vars, frac, parts, reparts, requantized>>

\* limit_denominator applied again, to its own result
Requantize ==
    /\ quantized # None
    /\ requantized = None
    /\ requantized' = Some(limit_denominator(quantized[1].value,
                                             quantized[1].limit))
    /\ UNCHANGED <<insert_vars, tuplet_vars, primitive_vars, frac, parts, reparts, quantized>>

NextFraction ==
    \/ Normalize
    \/ Renormalize
    \/ \E limit \in Limits : Quantize(limit)
    \/ Requantize

SpecFraction == InitFraction /\ [][NextFraction]_vars

(***************************************************************************)
(* A Tuplet built by Tuplet::new outside a container, then extended by     *)
(* Tuplet::set_end_position and Tuplet::push.                              *)
(***************************************************************************)
\* tests/tuplet.rs: the events of the two triplets of the test (c' at
\* 3/12 and 5/12, d' at 5/12, lengths 1/12 and 2/12) and a d' at 4/12
TupletGiven ==
    {Event(Frac(3, 12), Frac(1, 12), Note_c3, NonTuplet),
     Event(Frac(3, 12), Frac(2, 12), Note_c3, NonTuplet),
     Event(Frac(4, 12), Frac(1, 12), NoteOf(62, FALSE), NonTuplet),
     Event(Frac(5, 12), Frac(1, 12), Note_c3, NonTuplet),
     Event(Frac(5, 12), Frac(1, 12), NoteOf(62, FALSE), NonTuplet)}

\* the sequences given to Tuplet::new: one to three different events in
\* the order of their starts
TupletInputs ==
    {s \in UNION {[1..n -> TupletGiven] : n \in 1..3} :
        /\ \A i, j \in 1..Len(s) : i # j => s[i] # s[j]
        /\ \A i \in 1..(Len(s) - 1) :
              FLe(position(s[i].position), position(s[i + 1].position))}

\* the events given to Tuplet::push: triplet eighths after the first
TupletPushed ==
    {Event(Frac(k, 12), Frac(1, 12), n, NonTuplet) :
        k \in 4..6, n \in {Note_c3}}

\* the ends given to Tuplet::set_end_position
TupletEnds ==
    {RelativePosition(MeasureIndex, f) :
        f \in {Frac(1, 2), Frac(7, 12), Frac(3, 4)}}

InitTuplet ==
    /\ Fresh("Container", TimeSig)
    /\ frac = Zero
    /\ given \in TupletInputs
    /\ ev = NoEvent
    /\ operands = <<Zero, Zero>>
    /\ time_map = TimeMap_new(VoiceMeasureInfos, AbsolutePosition(Zero))

\* the last inner event of the tuplet
TupletBack ==
    tuplet[1].self.container.events[Len(tuplet[1].self.container.events)]

\* the given events end at or before the offset f
GivenEndBy(f) ==
    \A i \in 1..Len(given) :
        FLe(FAdd(position(given[i].position), given[i].length), f)

\* the calls extend the tuplet: the end offset f is not before the end of
\* the events the tuplet was built from, nor before the end given last
Extends(f) ==
    IF ended = None THEN GivenEndBy(f) ELSE FLe(position(ended[1].end), f)

\* Tuplet::new(3/2, given)
TupletNew ==
    /\ tuplet = None
    /\ given # <<>>
    /\ scaled' = Some(apply_rate(Triplet, given))
    /\ tuplet' = Some([tag |-> Tuplet_new(Triplet, given).tag,
                       self |-> Tuplet_new(Triplet, given).tuplet])
    /\ UNCHANGED <<insert_vars, fraction_vars, primitive_vars, given, ended>>

\* one Tuplet::set_end_position call
TupletSetEnd(end) ==
    /\ tuplet # None
    /\ tuplet[1].tag = "Ok"
    /\ calls < MaxInserts
    /\ Extends(position(end))
    /\ tuplet' = Some(Tuplet_set_end_position(tuplet[1].self, end))
    /\ ended' = Some([by |-> "set_end_position", end |-> end,
                      back |-> TupletBack.event.kind])
    /\ calls' = calls + 1
    /\ UNCHANGED <<subject, measure, container, before, inserted, result,
                   all_ok, since_start, nested, normalized, fraction_vars,
                   primitive_vars, given, scaled>>

\* one Tuplet::push call
TupletPush(event) ==
    /\ tuplet # None
    /\ tuplet[1].tag = "Ok"
    /\ calls < MaxInserts
    /\ Extends(position(end_position(event)))
    /\ tuplet' = Some(Tuplet_push(tuplet[1].self, event))
    /\ ended' = Some([by |-> "push", end |-> end_position(event),
                      back |-> TupletBack.event.kind])
    /\ calls' = calls + 1
    /\ UNCHANGED <<subject, measure, container, before, inserted, result,
                   all_ok, since_start, nested, normalized, fraction_vars,
                   primitive_vars, given, scaled>>

NextTuplet ==
    \/ TupletNew
    \/ \E end \in TupletEnds : TupletSetEnd(end)
    \/ \E event \in TupletPushed : TupletPush(event)

SpecTuplet == InitTuplet /\ [][NextTuplet]_vars

(***************************************************************************)
(* One EventInfo cut by cut_head or cut_head_at_position.                  *)
(***************************************************************************)
\* the payloads of the events cut: a Rest, a Note, a Chord and a closed
\* Tuplet of one triplet eighth
CutPayloads ==
    {Rest, Note(Note_c3), Chord(<<Note_c3, Note_d3>>),
     TupletPayload(
         Tuplet_new(Triplet,
                    <<Event(Frac(1, 4), Frac(1, 12), Note_c3, NonTuplet)>>).tuplet)}

\* the offsets of events and cuts: on the 1/128 grid and off it
CutOffsets ==
    {Zero, Frac(1, 8), Frac(1, 4), Frac(1, 3), Frac(3, 8), Frac(1, 2),
     Frac(7, 12)}

\* the lengths of events and heads
CutLengths ==
    {Zero, Frac(1, 129), Frac(1, 128), Frac(1, 8), Frac(1, 4), Frac(1, 3),
     Frac(1, 2)}

\* the events cut: doc tests of cut_head (measure 3 there), starting at 0,
\* 1/4 and 1/3
CutEvents ==
    {EventInfo(RelativePosition(MeasureIndex, o), l, payload) :
        o \in {Zero, Frac(1, 4), Frac(1, 3)},
        l \in CutLengths \ {Zero, Frac(1, 128)},
        payload \in CutPayloads}

\* the positions given to cut_head_at_position: in the measure of the
\* event, the one before and the one after
CutPositions ==
    {RelativePosition(i, o) :
        i \in (MeasureIndex - 1)..(MeasureIndex + 1), o \in CutOffsets}

\* events that start where no slot of a container or measure of length
\* 1/2 of measure MeasureIndex is: at or after its end, or in the next
\* measure
OutsideEvents ==
    {EventInfo(RelativePosition(MeasureIndex, o), Frac(1, 8), payload) :
        o \in {Frac(1, 2), Frac(3, 4)}, payload \in CutPayloads}
    \cup {EventInfo(RelativePosition(MeasureIndex + 1, o), Frac(1, 8), payload) :
            o \in {Zero, Frac(1, 4)}, payload \in CutPayloads}

InitEvent ==
    /\ Fresh("Container", TimeSig)
    /\ frac = Zero
    /\ given = <<>>
    /\ ev \in CutEvents \cup OutsideEvents
    /\ operands = <<Zero, Zero>>
    /\ time_map = TimeMap_new(VoiceMeasureInfos, AbsolutePosition(Zero))

\* ev.cut_head(head_length)
CutHead(head_length) ==
    /\ cut = None
    /\ cut' = Some([by |-> "cut_head", arg |-> head_length,
                    res |-> cut_head(ev, head_length)])
    /\ UNCHANGED <<insert_vars, fraction_vars, tuplet_vars, voice_vars,
                   operator_vars, time_map_vars, notated, preview_vars,
                   ev>>

\* ev.cut_head_at_position(pos)
CutHeadAtPosition(pos) ==
    /\ cut = None
    /\ cut' = Some([by |-> "cut_head_at_position", arg |-> pos,
                    res |-> cut_head_at_position(ev, pos)])
    /\ UNCHANGED <<insert_vars, fraction_vars, tuplet_vars, voice_vars,
                   operator_vars, time_map_vars, notated, preview_vars,
                   ev>>

\* the containers ev is inserted into: the empty one, and one with a
\* note from 1/8 to 1/4
CutContainers ==
    {Container_empty(RelativePosition(MeasureIndex, Zero), ContainerLength),
     Container_insert(
         Container_empty(RelativePosition(MeasureIndex, Zero), ContainerLength),
         Event(Frac(1, 8), Frac(1, 8), Note_c3, NonTuplet)).self}

\* into.insert(ev), with no tuplet pending
InsertEvent(into) ==
    /\ cut = None
    /\ cut' = Some([by |-> "insert", arg |-> into,
                    res |-> Container_insert(into, ev)])
    /\ UNCHANGED <<insert_vars, fraction_vars, tuplet_vars, voice_vars,
                   operator_vars, time_map_vars, notated, preview_vars,
                   ev>>

\* the measures ev is inserted into: the empty 2/4 measure, and one with
\* a note from 1/8 to 1/4
CutMeasures ==
    {Measure_new(MeasureIndex, 2, 4),
     Measure_insert(Measure_new(MeasureIndex, 2, 4),
                    Event(Frac(1, 8), Frac(1, 8), Note_c3, NonTuplet)).self}

\* into.insert(ev) on a Measure
InsertEventIntoMeasure(into) ==
    /\ cut = None
    /\ cut' = Some([by |-> "measure_insert", arg |-> into,
                    res |-> Measure_insert(into, ev)])
    /\ UNCHANGED <<insert_vars, fraction_vars, tuplet_vars, voice_vars,
                   operator_vars, time_map_vars, notated, preview_vars,
                   ev>>

NextEvent ==
    \/ \E head_length \in CutLengths : CutHead(head_length)
    \/ \E pos \in CutPositions : CutHeadAtPosition(pos)
    \/ \E into \in CutContainers : InsertEvent(into)
    \/ \E into \in CutMeasures : InsertEventIntoMeasure(into)

SpecEvent == InitEvent /\ [][NextEvent]_vars

(***************************************************************************)
(* A Voice of three measures filled by Voice::insert_event.                *)
(***************************************************************************)
\* the starts and lengths of the events given to Voice::insert_event:
\* those of test_voice (5/8 at 6/8 of measure 3, 3/8 at the start of
\* measure 4), events over two barlines, an event that ends after the
\* last measure, one from before the first measure, the last eighth of
\* measure 3, one that starts 1/512 after 3/4, and one of the measure
\* after the last
VoiceSpans ==
    {<<3, Frac(6, 8), Frac(5, 8)>>,
     <<4, Zero, Frac(3, 8)>>,
     <<3, Frac(1, 2), Frac(2, 1)>>,
     <<4, Frac(1, 4), Frac(5, 8)>>,
     <<4, Frac(3, 4), Frac(1, 1)>>,
     <<5, Frac(1, 1), Frac(1, 4)>>,
     <<2, Frac(1, 2), Frac(1, 4)>>,
     <<3, Frac(7, 8), Frac(1, 8)>>,
     <<3, Frac(385, 512), Frac(1, 4)>>,
     <<6, Frac(1, 4), Frac(1, 4)>>}

\* the event of a span: a note with a pitch of its own for every call
VoiceEvent(span, pitch) ==
    EventInfo(RelativePosition(span[1], span[2]), span[3],
              Note(NoteOf(pitch, FALSE)))

InitVoice ==
    /\ Fresh("Container", TimeSig)
    /\ frac = Zero
    /\ given = <<>>
    /\ ev = NoEvent
    /\ operands = <<Zero, Zero>>
    /\ time_map = TimeMap_new(VoiceMeasureInfos, AbsolutePosition(Zero))

\* one Voice::insert_event call
VoiceInsertEvent(span) ==
    /\ calls < MaxInserts
    /\ voice' = Voice_insert_event(voice, VoiceEvent(span, 60 + calls)).self
    /\ voice_call' =
          Some([event |-> VoiceEvent(span, 60 + calls),
                before |-> voice.measures,
                tag |-> Voice_insert_event(
                            voice, VoiceEvent(span, 60 + calls)).tag])
    /\ calls' = calls + 1
    /\ UNCHANGED <<subject, measure, container, before, inserted, result,
                   all_ok, since_start, nested, normalized, fraction_vars,
                   tuplet_vars, operator_vars, time_map_vars, notated,
                   preview_vars, ev, cut>>

NextVoice == \E span \in VoiceSpans : VoiceInsertEvent(span)

SpecVoice == InitVoice /\ [][NextVoice]_vars

(***************************************************************************)
(* The position conversions of a TimeMap.                                  *)
(***************************************************************************)
\* time_map.rs tests measures_from_ts: MeasureInfo of (index, numerator,
\* denominator) triples
measures_from_ts(info) ==
    [k \in 1..Len(info) |->
        MeasureInfo_new(info[k][1],
                        [numerator |-> info[k][2],
                         denominator |-> info[k][3]])]

\* time_map.rs tests time_map_1: six measures from measure 1 at position 0
time_map_1 ==
    TimeMap_new(measures_from_ts(<<<<1, 4, 4>>, <<2, 4, 4>>, <<3, 4, 4>>,
                                   <<4, 7, 8>>, <<5, 9, 8>>, <<6, 4, 4>>>>),
                AbsolutePosition(Zero))

\* time_map.rs tests time_map_2: four measures from measure 3 at position 2
time_map_2 ==
    TimeMap_new(measures_from_ts(<<<<3, 4, 4>>, <<4, 7, 8>>, <<5, 9, 8>>,
                                   <<6, 4, 4>>>>),
                AbsolutePosition(Frac(2, 1)))

\* a time map whose first measure starts off the 1/128 grid
time_map_off_grid ==
    TimeMap_new(measures_from_ts(<<<<2, 3, 4>>, <<3, 5, 8>>>>),
                AbsolutePosition(Frac(1, 3)))

TimeMaps == {time_map_1, time_map_2, time_map_off_grid}

\* offsets of the relative positions converted: 3/8 as in test_converter,
\* offsets off the 1/128 grid, and offsets at and after the end of a measure
RelativeOffsets ==
    {Zero, Frac(3, 8), Frac(1, 3), Frac(5, 8), Frac(127, 128),
     Frac(255, 256), Frac(1, 1), Frac(9, 8)}

\* the relative positions converted: in every measure of the map and in the
\* measure after its last one
Relatives(self) ==
    {RelativePosition(i, o) : i \in self.begin..(self.end + 1),
                              o \in RelativeOffsets}

\* the absolute positions converted: every quarter from 0 to 7 (34/8 of
\* test_converter is one of them), 43/8 of test_converter, and positions
\* off the 1/128 grid
Absolutes ==
    {AbsolutePosition(Frac(k, 4)) : k \in 0..28}
    \cup {AbsolutePosition(Frac(43, 8)),
          AbsolutePosition(Frac(7, 3)), AbsolutePosition(Frac(767, 256)),
          AbsolutePosition(Frac(1535, 256))}

InitTimeMap ==
    /\ Fresh("Container", TimeSig)
    /\ frac = Zero
    /\ given = <<>>
    /\ ev = NoEvent
    /\ operands = <<Zero, Zero>>
    /\ time_map \in TimeMaps

\* time_map.pos_absolute_from_relative(&relative), and the result given to
\* pos_relative_from_absolute, as test_converter does with its pairs
PosAbsoluteFromRelative(relative) ==
    /\ converted = None
    /\ converted' =
          Some([by |-> "pos_absolute_from_relative", arg |-> relative,
                res |-> pos_absolute_from_relative(time_map, relative),
                back |-> pos_relative_from_absolute(
                             time_map,
                             pos_absolute_from_relative(time_map, relative))])
    /\ UNCHANGED <<insert_vars, fraction_vars, tuplet_vars, voice_vars,
                   operator_vars, ev, cut, time_map, notated, preview_vars>>

\* time_map.pos_relative_from_absolute(&absolute)
PosRelativeFromAbsolute(absolute) ==
    /\ converted = None
    /\ converted' =
          Some([by |-> "pos_relative_from_absolute", arg |-> absolute,
                res |-> pos_relative_from_absolute(time_map, absolute),
                back |-> None])
    /\ UNCHANGED <<insert_vars, fraction_vars, tuplet_vars, voice_vars,
                   operator_vars, ev, cut, time_map, notated, preview_vars>>

NextTimeMap ==
    \/ \E relative \in Relatives(time_map) :
          PosAbsoluteFromRelative(relative)
    \/ \E absolute \in Absolutes : PosRelativeFromAbsolute(absolute)

SpecTimeMap == InitTimeMap /\ [][NextTimeMap]_vars

(***************************************************************************)
(* The notation codec: tokens of notation values, and the ReaScore section *)
(* of the tokens of a notation message.                                    *)
(***************************************************************************)
\* the variants of NoteHead
NoteHeads ==
    {"Default", "AltDefault", "Baroque", "Neomensural", "Mensural",
     "Petrucci", "Harmonic", "HarmonicBlack", "HarmonicMixed", "Diamond",
     "Cross", "XCircle", "Triangle", "Slash"}

\* the notation values encoded: every note head, voices of one, two and
\* three digits, dynamics (the "\mf" of test_parsing, and the "!" is_head
\* knows), tuplet rates and the tuplet end
NotationValues ==
    {NotationType_Note(NoteNotations_NoteHead(h)) : h \in NoteHeads}
    \cup {NotationType_Note(NoteNotations_Voice(v)) : v \in {0, 1, 2, 16, 255}}
    \cup {NotationType_Chord(ChordNotations_Dynamics(d)) :
             d \in {"\\mf", "p", "!"}}
    \cup {NotationType_Chord(ChordNotations_TupletRate(r)) :
             r \in {Frac(3, 2), Frac(2, 3), Frac(5, 4), Frac(12, 1)}}
    \cup {NotationType_Chord(ChordNotations_TupletEnd)}

\* the sub-tokens decoded: the token of every value, well-formed tokens no
\* value encodes to (a tuplet rate that is not reduced), and malformed ones
NotationTokens ==
    {NotationType_to_string(n) : n \in NotationValues}
    \cup {"tuplet:4/6", "tuplet:6/4", "voice:cross", "note-head",
          "note-head:1", "dynamics:\\mf", "foo:1", "foo", "", "tuplet:x",
          "tuplet", "dyn"}

\* the tokens of the notation messages: those of test_parsing (with and
\* without a ReaScore section), sections with tuplet sub-tokens, with a
\* sub-token of an unknown key, with an empty sub-token, and two sections
NotationMessages ==
    {<<"text", "ReaScore|note-head:cross|dyn:\\mf">>,
     <<>>,
     <<"text">>,
     <<"ReaScore|tuplet:3/2|dyn:p">>,
     <<"ReaScore|dyn:p|tuplet:3/2">>,
     <<"text", "ReaScore|tuplet_end">>,
     <<"ReaScore|foo:1|note-head:cross">>,
     <<"ReaScore|note-head:cross|foo:1">>,
     <<"ReaScore|voice:2|dyn:\\mf">>,
     <<"ReaScore|dyn:p|">>,
     <<"ReaScore|dyn:p", "ReaScore|note-head:cross">>}

\* the notations given to replace_notations
GivenNotations ==
    {<<>>,
     <<NotationType_Note(NoteNotations_NoteHead("Baroque"))>>,
     <<NotationType_Note(NoteNotations_Voice(1))>>,
     <<NotationType_Chord(ChordNotations_Dynamics("f"))>>,
     <<NotationType_Chord(ChordNotations_TupletRate(Frac(5, 4)))>>,
     <<NotationType_Chord(ChordNotations_TupletEnd)>>,
     <<NotationType_Note(NoteNotations_NoteHead("Baroque")),
       NotationType_Chord(ChordNotations_Dynamics("f"))>>,
     <<NotationType_Chord(ChordNotations_TupletEnd),
       NotationType_Chord(ChordNotations_TupletRate(Frac(5, 4)))>>}

InitNotation ==
    /\ Fresh("Container", TimeSig)
    /\ frac = Zero
    /\ given = <<>>
    /\ ev = NoEvent
    /\ operands = <<Zero, Zero>>
    /\ time_map = TimeMap_new(VoiceMeasureInfos, AbsolutePosition(Zero))

\* what a notation call leaves alone
notation_unchanged ==
    <<insert_vars, fraction_vars, tuplet_vars, voice_vars, operator_vars,
      time_map_vars, preview_vars, ev, cut>>

\* the parser of the notation type of the value: str::parse as
\* parse_notations applies it
NotationType_from_str(of, s) ==
    IF of = "Note"
    THEN Wrapped(NoteNotations_from_str(s), NotationType_Note)
    ELSE Wrapped(ChordNotations_from_str(s), NotationType_Chord)

\* notation.to_string(), and the token parsed again
Encode(notation) ==
    /\ notated = None
    /\ notated' =
          Some([by |-> "to_string", notation |-> notation,
                token |-> NotationType_to_string(notation),
                parsed |-> NotationType_from_str(
                               notation.of, NotationType_to_string(notation))])
    /\ UNCHANGED notation_unchanged

\* token.parse() as a notation of the type, and the result encoded again
Decode(of, token) ==
    /\ notated = None
    /\ notated' =
          Some([by |-> "from_str", of |-> of, token |-> token,
                parsed |-> NotationType_from_str(of, token),
                encoded |-> IF NotationType_from_str(of, token).tag = "Ok"
                            THEN Some(NotationType_to_string(
                                     NotationType_from_str(of, token).value))
                            ELSE None])
    /\ UNCHANGED notation_unchanged

\* MidiFuncs::parse_notations(msg)
ParseNotations(tokens) ==
    /\ notated = None
    /\ notated' =
          Some([by |-> "parse_notations", tokens |-> tokens,
                notations |-> parse_notations(tokens)])
    /\ UNCHANGED notation_unchanged

\* MidiFuncs::replace_notations(msg, notations)
ReplaceNotations(tokens, notations) ==
    /\ notated = None
    /\ notated' =
          Some([by |-> "replace_notations", tokens |-> tokens,
                given |-> notations,
                replaced |-> replace_notations(tokens, notations)])
    /\ UNCHANGED notation_unchanged

NextNotation ==
    \/ \E notation \in NotationValues : Encode(notation)
    \/ \E of \in {"Note", "Chord"}, token \in NotationTokens :
          Decode(of, token)
    \/ \E tokens \in NotationMessages : ParseNotations(tokens)
    \/ \E tokens \in NotationMessages, notations \in GivenNotations :
          ReplaceNotations(tokens, notations)

SpecNotation == InitNotation /\ [][NextNotation]_vars

(***************************************************************************)
(* plugin/src/preview_window.rs: the timer of the preview window.  Time is *)
(* in milliseconds since init.                                             *)
(***************************************************************************)
\* a faulty check_item: the observed hash and cursor are recorded only
\* when the track has been parsed without error
check_item_recording_late(self, at, track, hash, cursor_pos, bounds, code) ==
    IF ~track THEN [self |-> self, parsed |-> FALSE, failed |-> FALSE]
    ELSE IF hash = None
    THEN [self |-> self, parsed |-> FALSE, failed |-> FALSE]
    ELSE IF hash[1] = self.hash /\ cursor_pos = self.cursor_pos
    THEN [self |-> self, parsed |-> FALSE, failed |-> FALSE]
    ELSE IF ~self.ready_for_render
    THEN [self |-> [self EXCEPT !.ready_for_render = TRUE,
                                !.last_render = at],
          parsed |-> FALSE, failed |-> FALSE]
    ELSE IF at - self.last_render < self.render_lag
    THEN [self |-> self, parsed |-> FALSE, failed |-> FALSE]
    ELSE IF ~bounds
    THEN [self |-> [self EXCEPT !.last_render = at],
          parsed |-> FALSE, failed |-> FALSE]
    ELSE IF code.tag # "Ok"
    THEN [self |-> [self EXCEPT !.last_render = at],
          parsed |-> TRUE, failed |-> TRUE]
    ELSE [self |-> [self EXCEPT !.ready_for_render = FALSE,
                                !.last_render = at,
                                !.hash = hash[1],
                                !.cursor_pos = cursor_pos,
                                !.code = code.code,
                                !.render = TRUE],
          parsed |-> TRUE, failed |-> FALSE]

\* preview_window.rs PreviewWindow::check_item: [self, parsed, failed].
\* at: Instant::now(); track: a track is selected; hash: its MIDI hash, if
\* any; cursor_pos: the edit cursor; bounds: preview_bounds is Ok; code: the
\* result of parse_track_in_bounds.  parsed tells that
\* parse_track_in_bounds was called, failed that it returned Err
check_item(self, at, track, hash, cursor_pos, bounds, code) ==
    IF ~track THEN [self |-> self, parsed |-> FALSE, failed |-> FALSE]
    ELSE IF hash = None
    THEN [self |-> self, parsed |-> FALSE, failed |-> FALSE]
    ELSE IF hash[1] = self.hash /\ cursor_pos = self.cursor_pos
    THEN [self |-> self, parsed |-> FALSE, failed |-> FALSE]
    ELSE IF ~self.ready_for_render
    THEN [self |-> [self EXCEPT !.ready_for_render = TRUE,
                                !.last_render = at],
          parsed |-> FALSE, failed |-> FALSE]
    ELSE IF at - self.last_render < self.render_lag
    THEN [self |-> self, parsed |-> FALSE, failed |-> FALSE]
    ELSE IF ~bounds
    THEN [self |-> [self EXCEPT !.ready_for_render = FALSE,
                                !.last_render = at,
                                !.hash = hash[1],
                                !.cursor_pos = cursor_pos],
          parsed |-> FALSE, failed |-> FALSE]
    ELSE IF code.tag # "Ok"
    THEN [self |-> [self EXCEPT !.ready_for_render = FALSE,
                                !.last_render = at,
                                !.hash = hash[1],
                                !.cursor_pos = cursor_pos],
          parsed |-> TRUE, failed |-> TRUE]
    ELSE [self |-> [self EXCEPT !.ready_for_render = FALSE,
                                !.last_render = at,
                                !.hash = hash[1],
                                !.cursor_pos = cursor_pos,
                                !.code = code.code,
                                !.render = TRUE],
          parsed |-> TRUE, failed |-> FALSE]

\* preview_window.rs impl Timer for PreviewWindow, run, after check_item:
\* the input "render lag ms" may change render_lag (lag, if any), and a
\* window marked for render is rendered and unmarked
run_window(self, lag) ==
    [self EXCEPT !.render_lag = IF lag = None THEN @ ELSE lag[1],
                 !.render = FALSE]

\* the longest time since init the polls are followed to
MaxTime == 1000

\* the time between two polls of the timer
PollGaps == {250, 500}

\* what a poll can observe: no hash (as without a track), or one of two
\* hashes of the track; two cursor positions; and the result of
\* parse_track_in_bounds
Hashes == {None, Some("a"), Some("b")}
CursorPositions == {0, 1}
ParseResults == {[tag |-> "Ok", code |-> "d'4"], [tag |-> "Err", code |-> ""]}

\* the "render lag ms" input: left alone, or set to a new lag
RenderLags == {None, Some(250)}

InitPreview ==
    /\ Fresh("Container", TimeSig)
    /\ frac = Zero
    /\ given = <<>>
    /\ ev = NoEvent
    /\ operands = <<Zero, Zero>>
    /\ time_map = TimeMap_new(VoiceMeasureInfos, AbsolutePosition(Zero))

\* what the preview window leaves alone
preview_unchanged ==
    <<insert_vars, fraction_vars, tuplet_vars, voice_vars, operator_vars,
      time_map_vars, notated, ev, cut>>

\* time passes between two polls
Tick(gap) ==
    /\ now + gap <= MaxTime
    /\ now' = now + gap
    /\ UNCHANGED <<window, polled, preview_unchanged>>

\* the pair of the last parse that failed, while every poll since has
\* observed that pair or none
FailedPair == IF polled = None THEN None ELSE polled[1].failed

\* one poll of the timer: Timer::run, with what the host shows at the time
Run(track, hash, cursor_pos, bounds, code, lag) ==
    /\ LET checked == check_item(window, now, track, hash, cursor_pos,
                                 bounds, code)
       IN  /\ window' = run_window(checked.self, lag)
           /\ polled' =
                 Some([before |-> window,
                       at |-> now,
                       track |-> track,
                       hash |-> hash,
                       cursor_pos |-> cursor_pos,
                       checked |-> checked.self,
                       parsed |-> checked.parsed,
                       rendered |-> checked.self.render,
                       was_failed |-> FailedPair,
                       failed |->
                          IF checked.failed
                          THEN Some(<<hash[1], cursor_pos>>)
                          ELSE IF track /\ hash # None
                                  /\ FailedPair # Some(<<hash[1], cursor_pos>>)
                          THEN None
                          ELSE FailedPair])
    /\ UNCHANGED <<now, preview_unchanged>>

NextPreview ==
    \/ \E gap \in PollGaps : Tick(gap)
    \/ \E track \in BOOLEAN, hash \in Hashes, cursor_pos \in CursorPositions,
          bounds \in BOOLEAN, code \in ParseResults, lag \in RenderLags :
          /\ track \/ hash = None
          /\ Run(track, hash, cursor_pos, bounds, code, lag)

SpecPreview == InitPreview /\ [][NextPreview]_vars

(***************************************************************************)
(* The operators of Length and RelativePosition on a pair of fractions.    *)
(***************************************************************************)
\* the fractions the operators are given: lengths and offsets on the
\* 1/128 grid and off it (1/129 as in the test of length.rs, 2/4 and 1/4
\* as in relative_sub_1)
Operands ==
    {Zero, Frac(1, 129), Frac(1, 128), Frac(1, 4), Frac(1, 3),
     Frac(43, 128), Frac(2, 4), Frac(3, 4), Frac(1, 1), Frac(2, 1)}

\* position.rs tests: the measure of the positions subtracted
OperandMeasure == 2

InitOperators ==
    /\ Fresh("Container", TimeSig)
    /\ frac = Zero
    /\ given = <<>>
    /\ ev = NoEvent
    /\ operands \in Operands \X Operands
    /\ time_map = TimeMap_new(VoiceMeasureInfos, AbsolutePosition(Zero))

\* the operator has been applied: outcome is set
Applied(by, res) ==
    /\ outcome = None
    /\ outcome' = Some([by |-> by, res |-> res])
    /\ UNCHANGED <<insert_vars, fraction_vars, tuplet_vars, voice_vars,
                   ev, cut, operands, time_map_vars, notated, preview_vars>>

\* Length::from(a) - Length::from(b)
LengthSub == Applied("Length::sub", Length_sub(operands[1], operands[2]))

\* the six comparisons of Length::from(a) with Length::from(b)
LengthCompare ==
    Applied("Length::cmp",
            [eq |-> Length_eq(operands[1], operands[2]),
             ne |-> Length_ne(operands[1], operands[2]),
             lt |-> Length_lt(operands[1], operands[2]),
             le |-> Length_le(operands[1], operands[2]),
             gt |-> Length_gt(operands[1], operands[2]),
             ge |-> Length_ge(operands[1], operands[2])])

\* RelativePosition::new(2, a) - RelativePosition::new(2, b)
PositionSub ==
    Applied("RelativePosition::sub",
            RelativePosition_sub(
                RelativePosition(OperandMeasure, operands[1]),
                RelativePosition(OperandMeasure, operands[2])))

NextOperators == LengthSub \/ LengthCompare \/ PositionSub

SpecOperators == InitOperators /\ [][NextOperators]_vars

(***************************************************************************)
(* Vocabulary of the properties.                                           *)
(***************************************************************************)
Events == IF subject = "Measure" THEN measure.events ELSE container.events
TotalLength == IF subject = "Measure" THEN measure.length ELSE container.length

Start(e) == position(e.position)
End(e) == FAdd(position(e.position), e.length)

RECURSIVE SumLengths(_, _)
SumLengths(events, i) ==
    IF i > Len(events) THEN Zero
    ELSE FAdd(events[i].length, SumLengths(events, i + 1))

Disjoint(a, b) == FLe(End(a), Start(b)) \/ FLe(End(b), Start(a))

NotesOf(payload) ==
    CASE payload.kind = "Note" -> <<payload.note>>
      [] payload.kind = "Chord" -> payload.notes
      [] OTHER -> <<>>

\* the pitches sounding in an event, those inside a tuplet included
RECURSIVE PitchesOf(_)
PitchesOf(e) ==
    IF e.event.kind = "Tuplet"
    THEN UNION {PitchesOf(e.event.tuplet.container.events[i]) :
                   i \in 1..Len(e.event.tuplet.container.events)}
    ELSE {NotesOf(e.event)[i].pitch : i \in 1..Len(NotesOf(e.event))}

TupletSlots(events) == {i \in 1..Len(events) : events[i].event.kind = "Tuplet"}

\* the last call inserted an unmarked event with no tuplet pending and no
\* tuplet slot stored
PlainInsert ==
    /\ inserted # None
    /\ inserted[1].tuplet_type.kind = "NonTuplet"
    /\ before.tuplet = None
    /\ TupletSlots(before.events) = {}

\* the slots that hold the parts of the event e placed by the last call
Fragments(e) ==
    {j \in 1..Len(Events) : /\ FLe(Start(e), Start(Events[j]))
                            /\ FLe(End(Events[j]), End(e))}

LastNote(payload) == NotesOf(payload)[Len(NotesOf(payload))]

\* the part of e inside the measure is placed: a slot starts where e starts
\* and every slot from there to the end of e holds the note of e as its
\* newest note
Placed(e) ==
    /\ \E j \in 1..Len(Events) : Start(Events[j]) = Start(e)
    /\ \A j \in Fragments(e) :
          /\ NotesOf(Events[j].event) # <<>>
          /\ LastNote(Events[j].event).pitch = e.event.note.pitch

(***************************************************************************)
(* C1.  After any sequence of insert calls that all returned Ok, the       *)
(* stored events of the measure / container are pairwise non-overlapping   *)
(* and their lengths sum exactly to its length.                            *)
(***************************************************************************)
C1_Coverage ==
    all_ok =>
        /\ \A i, j \in 1..Len(Events) :
              i # j => Disjoint(Events[i], Events[j])
        /\ SumLengths(Events, 1) = TotalLength

\* three inserts have cut the sequence into at least four slots, one a chord
C1_Witness ==
    /\ all_ok
    /\ calls >= 3
    /\ Len(Events) >= 4
    /\ \E i \in 1..Len(Events) : Events[i].event.kind = "Chord"

(***************************************************************************)
(* C2.  An unmarked event that starts at offset p inside the measure and   *)
(* ends beyond its length M is answered by Ok(Some(overflow)): overflow is *)
(* at offset 0 of the next measure, has length p + L - M and the inserted  *)
(* payload, and the part [p, M) is placed in the measure, whether or not   *)
(* the event crosses boundaries of stored slots on its way to M.           *)
(***************************************************************************)
C2_Overflow ==
    (/\ PlainInsert
     /\ FLt(Start(inserted[1]), before.length)
     /\ FLt(before.length, End(inserted[1])))
    => /\ result = Ok(Some(
              [position |-> RelativePosition(MeasureIndex + 1, Zero),
               length |-> FSub(End(inserted[1]), before.length),
               event |-> inserted[1].event,
               tuplet_type |-> NonTuplet]))
       /\ Placed(inserted[1])

\* an overflowing event crossed the boundary of a stored slot and the
\* overflow came back
C2_Witness ==
    /\ PlainInsert
    /\ FLt(before.length, End(inserted[1]))
    /\ result.tag = "Ok"
    /\ result.head # None
    /\ \E i \in 1..Len(before.events) :
          /\ FLt(Start(inserted[1]), End(before.events[i]))
          /\ FLt(End(before.events[i]), before.length)

(***************************************************************************)
(* C3.  A note inserted at the offset and with the length of a slot that   *)
(* holds a Note turns the slot into one Chord of the stored note followed  *)
(* by the new one (a slot holding a Chord gets the note appended); the     *)
(* number of slots and every slot boundary stay as they were.              *)
(***************************************************************************)
C3_ChordMerge ==
    \A i \in 1..Len(before.events) :
        (/\ inserted # None
         /\ inserted[1].tuplet_type.kind = "NonTuplet"
         /\ before.tuplet = None
         /\ before.events[i].event.kind \in {"Note", "Chord"}
         /\ before.events[i].position = inserted[1].position
         /\ before.events[i].length = inserted[1].length)
        => /\ result = Ok(None)
           /\ Len(Events) = Len(before.events)
           /\ \A j \in 1..Len(Events) :
                 /\ Events[j].position = before.events[j].position
                 /\ Events[j].length = before.events[j].length
                 /\ j # i => Events[j] = before.events[j]
           /\ Events[i].event =
                 Chord(NotesOf(before.events[i].event)
                       \o <<inserted[1].event.note>>)

\* a third note went into a slot that already held a chord of two
C3_Witness ==
    /\ inserted # None
    /\ inserted[1].tuplet_type.kind = "NonTuplet"
    /\ before.tuplet = None
    /\ result = Ok(None)
    /\ \E i \in 1..Len(before.events) :
          /\ before.events[i].event.kind = "Chord"
          /\ before.events[i].position = inserted[1].position
          /\ before.events[i].length = inserted[1].length
          /\ Len(NotesOf(Events[i].event)) = 3

(***************************************************************************)
(* C4.  One note of length L inserted at offset p, 0 < p and p + L < M,    *)
(* into a freshly created measure of length M returns Ok(None) and leaves  *)
(* exactly three slots: Rest[0, p), Note[p, p + L), Rest[p + L, M).        *)
(***************************************************************************)
C4_FreshInsert ==
    (/\ calls = 1
     /\ inserted[1].tuplet_type.kind # "TupletStart"
     /\ FLt(Zero, Start(inserted[1]))
     /\ FLt(End(inserted[1]), TotalLength))
    => /\ result = Ok(None)
       /\ Events =
             <<EventInfo(RelativePosition(MeasureIndex, Zero),
                         Start(inserted[1]), Rest),
               EventInfo(inserted[1].position, inserted[1].length,
                         inserted[1].event),
               EventInfo(RelativePosition(MeasureIndex, End(inserted[1])),
                         FSub(TotalLength, End(inserted[1])), Rest)>>

\* the first insert into the fresh Measure put a note strictly inside it
C4_Witness ==
    /\ subject = "Measure"
    /\ calls = 1
    /\ FLt(Zero, Start(inserted[1]))
    /\ FLt(End(inserted[1]), TotalLength)
    /\ Len(Events) = 3
    /\ Events[2].event.kind = "Note"

(***************************************************************************)
(* C5.  When insert splits the inserted note into several parts at the     *)
(* boundaries of stored slots or at the end of the measure, every part but *)
(* the last has its tie set and the last part keeps the tie of the         *)
(* inserted note; the notes of a stored slot that is not cut keep their    *)
(* ties.                                                                   *)
(***************************************************************************)
C5_Ties ==
    (PlainInsert /\ result.tag = "Ok")
    => /\ Placed(inserted[1])
       /\ \A j \in Fragments(inserted[1]) :
             LastNote(Events[j].event).tie =
                IF \/ result.head # None
                   \/ \E k \in Fragments(inserted[1]) :
                         FLt(Start(Events[j]), Start(Events[k]))
                THEN TRUE
                ELSE inserted[1].event.note.tie
       /\ result.head # None
             => result.head[1].event.note.tie = inserted[1].event.note.tie
       /\ \A i \in 1..Len(before.events) : \A j \in 1..Len(Events) :
             (/\ before.events[i].position = Events[j].position
              /\ before.events[i].length = Events[j].length)
             => SubSeq(NotesOf(Events[j].event), 1,
                       Len(NotesOf(before.events[i].event)))
                   = NotesOf(before.events[i].event)

\* an untied note was split into at least two parts inside the measure and
\* an overflow, next to a stored tied note that was not cut
C5_Witness ==
    /\ PlainInsert
    /\ result.tag = "Ok"
    /\ result.head # None
    /\ ~inserted[1].event.note.tie
    /\ Cardinality(Fragments(inserted[1])) >= 2
    /\ \E i \in 1..Len(before.events) : \E j \in 1..Len(Events) :
          /\ before.events[i] = Events[j]
          /\ before.events[i].event.kind = "Note"
          /\ before.events[i].event.note.tie

(***************************************************************************)
(* C6.  Nested tuplets: a TupletStart inserted while a tuplet is pending   *)
(* does not lose the events collected so far; once TupletEnd has closed    *)
(* the tuplet, every note inserted since the first TupletStart is found    *)
(* in a Tuplet slot of the outer sequence.                                 *)
(***************************************************************************)
C6_NestedKeepsNotes ==
    (/\ subject = "Container"
     /\ all_ok
     /\ inserted # None
     /\ inserted[1].tuplet_type.kind = "TupletEnd"
     /\ before.tuplet # None)
    => since_start \subseteq
          UNION {PitchesOf(container.events[i]) :
                    i \in TupletSlots(container.events)}

\* a tuplet opened inside a pending tuplet has been closed
C6_Witness ==
    /\ subject = "Container"
    /\ all_ok
    /\ nested
    /\ inserted[1].tuplet_type.kind = "TupletEnd"
    /\ before.tuplet # None
    /\ container.tuplet = None
    /\ TupletSlots(container.events) # {}

(***************************************************************************)
(* C7.  A TupletEnd event inserted while a tuplet is pending is pushed     *)
(* into the pending tuplet, the pending slot becomes empty and the         *)
(* completed tuplet is placed in the outer sequence as one Tuplet slot     *)
(* from the offset of the TupletStart event, quantized to 1/128, to the    *)
(* quantized end of the TupletEnd event, provided that region was inside   *)
(* one Rest slot.                                                          *)
(***************************************************************************)
\* the last call was a TupletEnd with a tuplet pending whose region from
\* offset from to the quantized end of the event was inside one Rest slot
TupletEnded(from) ==
    /\ subject = "Container"
    /\ inserted # None
    /\ inserted[1].tuplet_type.kind = "TupletEnd"
    /\ before.tuplet # None
    /\ \E i \in 1..Len(before.events) :
          /\ before.events[i].event.kind = "Rest"
          /\ FLe(Start(before.events[i]), from)
          /\ FLe(limit_denominator(End(inserted[1]), LIMIT_DENOMINATOR),
                 End(before.events[i]))

\* the completed tuplet is one new Tuplet slot that starts at offset from
TupletPlaced(from) ==
    /\ result = Ok(None)
    /\ container.tuplet = None
    /\ Cardinality(TupletSlots(container.events))
          = Cardinality(TupletSlots(before.events)) + 1
    /\ \E j \in TupletSlots(container.events) :
          /\ Start(container.events[j]) = from
          /\ End(container.events[j])
                = limit_denominator(End(inserted[1]), LIMIT_DENOMINATOR)
          /\ container.events[j].event.tuplet.position
                = before.tuplet[1].event.tuplet.position
          /\ inserted[1].event.note.pitch \in PitchesOf(container.events[j])

C7_TupletEndPlaces ==
    TupletEnded(position_quantized(before.tuplet[1].event.tuplet.position))
    => TupletPlaced(position_quantized(before.tuplet[1].event.tuplet.position))

\* C7 as stated: the slot starts at the offset of the TupletStart event
C7_TupletEndPlaces_Stated ==
    TupletEnded(position(before.tuplet[1].event.tuplet.position))
    => TupletPlaced(position(before.tuplet[1].event.tuplet.position))

\* a tuplet opened by a TupletStart off the 1/128 grid has been closed and
\* placed
C7_Witness ==
    /\ TupletEnded(position_quantized(before.tuplet[1].event.tuplet.position))
    /\ position_quantized(before.tuplet[1].event.tuplet.position)
          # position(before.tuplet[1].event.tuplet.position)
    /\ result = Ok(None)
    /\ TupletSlots(container.events) # {}

(***************************************************************************)
(* C8.  An insert of an event marked TupletStart, and of any NonTuplet     *)
(* event while a tuplet is pending, leaves the outer event sequence and    *)
(* the length of the container as they were; when the call returns Ok it   *)
(* returns Ok(None) and the event's note is in the pending tuplet.         *)
(***************************************************************************)
\* the last call was delegated to the pending slot
Delegated ==
    /\ subject = "Container"
    /\ inserted # None
    /\ \/ inserted[1].tuplet_type.kind = "TupletStart"
       \/ inserted[1].tuplet_type.kind = "NonTuplet" /\ before.tuplet # None

C8_PendingFrame ==
    Delegated
    => /\ container.events = before.events
       /\ container.length = before.length
       /\ result.tag = "Ok"
          => /\ result = Ok(None)
             /\ container.tuplet # None
             /\ inserted[1].event.note.pitch \in PitchesOf(container.tuplet[1])

\* an unmarked note has been pushed into a pending tuplet that held
\* another note, with slots already placed in the outer sequence
C8_Witness ==
    /\ Delegated
    /\ inserted[1].tuplet_type.kind = "NonTuplet"
    /\ result = Ok(None)
    /\ Len(container.events) > 1
    /\ Cardinality(PitchesOf(container.tuplet[1])) = 2

(***************************************************************************)
(* C9.  An unmarked note inserted, with no tuplet pending, at a position   *)
(* inside a slot that holds a closed Tuplet is pushed into that tuplet:    *)
(* the call returns Ok, the slot is still one Tuplet slot with the same    *)
(* boundaries and the note is in the inner container of the tuplet, also   *)
(* when the note is shorter than the slot or starts after its start.       *)
(***************************************************************************)
\* the last call was an unmarked insert, no tuplet pending, of a note that
\* lies inside slot i of the sequence before the call, a closed Tuplet
IntoTuplet(i) ==
    /\ subject = "Container"
    /\ inserted # None
    /\ inserted[1].tuplet_type.kind = "NonTuplet"
    /\ before.tuplet = None
    /\ i \in TupletSlots(before.events)
    /\ FLe(Start(before.events[i]), Start(inserted[1]))
    /\ FLe(End(inserted[1]), End(before.events[i]))

\* slot i is still that Tuplet slot, and holds the note
PushedInto(i) ==
    /\ result.tag = "Ok"
    /\ Len(container.events) = Len(before.events)
    /\ i \in TupletSlots(container.events)
    /\ Start(container.events[i]) = Start(before.events[i])
    /\ End(container.events[i]) = End(before.events[i])
    /\ inserted[1].event.note.pitch \in PitchesOf(container.events[i])

C9_PushIntoTuplet ==
    \A i \in 1..Len(before.events) : IntoTuplet(i) => PushedInto(i)

\* a note with exactly the span of a closed Tuplet slot has been pushed
\* into it
C9_Witness ==
    \E i \in 1..Len(before.events) :
        /\ IntoTuplet(i)
        /\ Start(before.events[i]) = Start(inserted[1])
        /\ End(inserted[1]) = End(before.events[i])
        /\ PushedInto(i)

(***************************************************************************)
(* C10.  normalize_fraction keeps the total: the returned fractions sum    *)
(* exactly to the input, for 0 the result is empty, 5/8 gives [1/8, 1/2]   *)
(* and 13/16 gives [1/16, 1/4, 1/2].                                       *)
(***************************************************************************)
RECURSIVE SumParts(_)
SumParts(s) == IF s = <<>> THEN Zero ELSE FAdd(Head(s), SumParts(Tail(s)))

C10_NormalizeKeepsTotal ==
    parts # None
    => /\ SumParts(parts[1]) = frac
       /\ frac = Zero => parts[1] = <<>>
       /\ frac # Zero => parts[1] # <<>>
       /\ frac = Frac(5, 8) => parts[1] = <<Frac(1, 8), Frac(1, 2)>>
       /\ frac = Frac(13, 16) => parts[1] = <<Frac(1, 16), Frac(1, 4), Frac(1, 2)>>

\* 13/16 has been decomposed, through the recursion, into three parts
C10_Witness ==
    /\ parts # None
    /\ frac = Frac(13, 16)
    /\ Len(parts[1]) = 3

(***************************************************************************)
(* C11.  For every quantized length (n/d with d a power of two up to 128)  *)
(* normalize_fraction returns its fractions in ascending order, the        *)
(* smallest first and the largest last.                                    *)
(***************************************************************************)
\* f lies on the 1/128 grid: its reduced denominator is a power of two up
\* to LIMIT_DENOMINATOR
OnGrid(f) == Denom(f) \in {Pow2(k) : k \in 0..7}

Ascending(s) == \A i \in 1..(Len(s) - 1) : FLe(s[i], s[i + 1])

C11_Ascending ==
    (parts # None /\ OnGrid(frac)) => Ascending(parts[1])

\* 21/32 has been decomposed through one recursion, in ascending order
C11_Witness ==
    /\ parts # None
    /\ frac = Frac(21, 32)
    /\ parts[1] = <<Frac(1, 32), Frac(1, 8), Frac(1, 2)>>

(***************************************************************************)
(* C12.  If the numerator of the reduced input fraction is an exact power  *)
(* of two, normalize_fraction returns the one-element sequence holding     *)
(* the input unchanged, for every denominator.                             *)
(***************************************************************************)
IsPowerOfTwo(n) == n \in {Pow2(k) : k \in 0..5}

C12_PowerOfTwoKept ==
    (parts # None /\ IsPowerOfTwo(Numer(frac))) => parts[1] = <<frac>>

\* a fraction whose numerator is a power of two above 4 has been returned
\* as it was
C12_Witness ==
    /\ parts # None
    /\ IsPowerOfTwo(Numer(frac))
    /\ Numer(frac) > 4
    /\ parts[1] = <<frac>>

(***************************************************************************)
(* C13.  Fraction decomposition is idempotent: every element e of          *)
(* normalize_fraction(x) is a fixed point, normalize_fraction(e) = [e],    *)
(* so normalizing the output again yields the same sequence.               *)
(***************************************************************************)
RECURSIVE Flatten(_)
Flatten(ss) == IF ss = <<>> THEN <<>> ELSE Head(ss) \o Flatten(Tail(ss))

C13_NormalizeIdempotent ==
    reparts # None
    => /\ \A i \in 1..Len(parts[1]) : reparts[1][i] = <<parts[1][i]>>
       /\ Flatten(reparts[1]) = parts[1]

\* the three parts of a decomposition that went through the recursion have
\* been normalized again
C13_Witness ==
    /\ reparts # None
    /\ Len(parts[1]) = 3
    /\ Flatten(reparts[1]) = parts[1]

(***************************************************************************)
(* C14.  Quantization is idempotent: for every non-negative fraction f,    *)
(* limit_denominator(limit_denominator(f, 128), 128) equals                *)
(* limit_denominator(f, 128).                                              *)
(***************************************************************************)
C14_QuantizeIdempotent ==
    (requantized # None /\ quantized[1].limit = LIMIT_DENOMINATOR)
    => requantized[1] = quantized[1].value

\* a fraction off the 1/128 grid has been quantized to 1/128 twice
C14_Witness ==
    /\ requantized # None
    /\ quantized[1].limit = LIMIT_DENOMINATOR
    /\ ~OnGrid(frac)
    /\ quantized[1].value # frac
    /\ requantized[1] = quantized[1].value

(***************************************************************************)
(* C15.  limit_denominator(f, limit) returns the fraction nearest to f     *)
(* among the multiples of 1/limit, the upper one when f lies halfway       *)
(* between two of them.                                                    *)
(***************************************************************************)
FAbs(a) == <<Abs(a[1]), a[2]>>
Distance(a, b) == FAbs(FSub(a, b))

\* the multiples of 1/q next to f, below and above
Around(f, q) ==
    {Frac((Numer(f) * q) \div Denom(f), q),
     Frac((Numer(f) * q) \div Denom(f) + 1, q)}

C15_NearestOnGrid ==
    quantized # None
    => /\ Denom(quantized[1].value) \in
              {d \in 1..quantized[1].limit : quantized[1].limit % d = 0}
       /\ \A r \in Around(frac, quantized[1].limit) :
              /\ FLe(Distance(quantized[1].value, frac), Distance(r, frac))
              /\ Distance(r, frac) = Distance(quantized[1].value, frac)
                 => FLe(r, quantized[1].value)

\* C15 as stated: the nearest among all fractions whose denominator is at
\* most limit (for every such denominator, the two fractions next to f)
C15_NearestOfAll ==
    quantized # None
    => \A q \in 1..quantized[1].limit : \A r \in Around(frac, q) :
           FLe(Distance(quantized[1].value, frac), Distance(r, frac))

\* 6/25 has been quantized to 31/128, as in test_limit_denominator
C15_Witness ==
    /\ quantized # None
    /\ quantized[1].limit = LIMIT_DENOMINATOR
    /\ frac = Frac(6, 25)
    /\ quantized[1].value = Frac(31, 128)

(***************************************************************************)
(* C16.  For a measure filled by unmarked inserts, get_events_normalized   *)
(* returns fragments in ascending start order that begin at offset 0, are  *)
(* contiguous and end at the measure length; every stored slot is emitted  *)
(* exactly once, as one or more fragments that carry its payload.          *)
(***************************************************************************)
\* the fragments returned by the last get_events_normalized call
Normalized == normalized[1].events

\* a payload without its ties
Untied(payload) ==
    [kind |-> payload.kind,
     pitches |-> [i \in 1..Len(NotesOf(payload)) |-> NotesOf(payload)[i].pitch]]

\* the fragments a..b are exactly the slot s
EmittedAs(s, a, b) ==
    /\ a <= b
    /\ Start(Normalized[a]) = Start(s)
    /\ End(Normalized[b]) = End(s)
    /\ \A k \in a..b : Untied(Normalized[k].event) = Untied(s.event)

Contiguous(events) ==
    /\ events # <<>>
    /\ Start(events[1]) = Zero
    /\ \A i \in 1..(Len(events) - 1) : Start(events[i + 1]) = End(events[i])

Renders(length) == Numer(get_quantized(length)) \in {1, 3}

C17_FragmentsRender ==
    normalized # None
    => \A k \in 1..Len(Normalized) : Renders(Normalized[k].length)

\* a 4/4 measure with notes has been normalized into fragments that all
\* render
C17_Witness ==
    /\ normalized # None
    /\ calls > 1
    /\ measure.time_signature = TimeSig
    /\ \A k \in 1..Len(Normalized) : Renders(Normalized[k].length)

(***************************************************************************)
(* C18.  get_events_normalized forces a split only where a slot starts     *)
(* strictly inside a beat (of length 1/denominator) and extends past the   *)
(* end of that beat: it is cut exactly there.  A slot that ends at or      *)
(* before the end of the beat it starts in, or that starts on a beat       *)
(* boundary, is emitted, expanded by normalize_fraction, with no forced    *)
(* split.                                                                  *)
(***************************************************************************)
\* the end of the beat that holds the offset f, for beats of 1/d
BeatEnd(f, d) == Frac((Numer(f) * d) \div Denom(f) + 1, d)

\* the offset f lies strictly inside a beat of 1/d
InsideBeat(f, d) == (Numer(f) * d) % Denom(f) # 0

\* the slot s is forced to split at a beat of 1/d
ForcedSplit(s, d) ==
    InsideBeat(Start(s), d) /\ FLt(BeatEnd(Start(s), d), End(s))

\* starts and lengths of a sequence of events
Geometry(events) ==
    [k \in 1..Len(events) |-> <<Start(events[k]), events[k].length>>]

\* the starts and lengths the slot s is emitted with
Expected(s, d) ==
    IF ForcedSplit(s, d)
    THEN Geometry(with_normalized_length(
             [s EXCEPT !.length = FSub(BeatEnd(Start(s), d), Start(s))]))
         \o Geometry(with_normalized_length(
             [s EXCEPT !.position.measure_position = BeatEnd(Start(s), d),
                       !.length = FSub(End(s), BeatEnd(Start(s), d))]))
    ELSE Geometry(with_normalized_length(s))

Nearest(x, q) ==
    {r \in Around(x, q) :
        \A other \in Around(x, q) : FLe(Distance(r, x), Distance(other, x))}

\* event i of the result of apply_rate is event i of given, moved to the
\* inner offset and scaled to the inner length
ScaledFrom(i) ==
    \E a \in Nearest(Start(given[i]), TUPLET_QUANTIZE) :
    \E b \in Nearest(Start(given[1]), TUPLET_QUANTIZE) :
    \E l \in Nearest(given[i].length, TUPLET_QUANTIZE) :
        /\ Start(scaled[1].events[i])
              \in Nearest(FMul(FSub(a, b), Triplet), LIMIT_DENOMINATOR)
        /\ scaled[1].events[i].length
              \in Nearest(FMul(l, Triplet), LIMIT_DENOMINATOR)
        /\ scaled[1].events[i].event = given[i].event

\* the inner events of the tuplet
Inner == tuplet[1].self.container.events

InnerEvent(from, to, payload) ==
    EventInfo(RelativePosition(MeasureIndex, from), FSub(to, from), payload)

C19_TupletNew ==
    (tuplet # None /\ ended = None)
    => /\ tuplet[1].tag = "Ok"
       /\ tuplet[1].self.position = given[1].position
       /\ Len(scaled[1].events) = Len(given)
       /\ \A i \in 1..Len(given) :
              /\ ScaledFrom(i)
              /\ \E j \in 1..Len(Inner) :
                    /\ Start(Inner[j]) = Start(scaled[1].events[i])
                    /\ PitchesOf(given[i]) \subseteq PitchesOf(Inner[j])
       /\ given = <<Event(Frac(3, 12), Frac(1, 12), Note_c3, NonTuplet),
                    Event(Frac(5, 12), Frac(1, 12), Note_c3, NonTuplet),
                    Event(Frac(5, 12), Frac(1, 12), NoteOf(62, FALSE), NonTuplet)>>
          => Inner = <<InnerEvent(Zero, Frac(1, 8), Note(Note_c3)),
                       InnerEvent(Frac(1, 8), Frac(1, 4), Rest),
                       InnerEvent(Frac(1, 4), Frac(3, 8),
                                  Chord(<<Note_c3, NoteOf(62, FALSE)>>))>>
       /\ given = <<Event(Frac(3, 12), Frac(2, 12), Note_c3, NonTuplet),
                    Event(Frac(5, 12), Frac(1, 12), Note_c3, NonTuplet)>>
          => Inner = <<InnerEvent(Zero, Frac(1, 4), Note(Note_c3)),
                       InnerEvent(Frac(1, 4), Frac(3, 8), Note(Note_c3))>>

\* the triplet of three events of tests/tuplet.rs has been built: two
\* events start off the 1/256 grid and the two at 5/12 share a slot
C19_Witness ==
    /\ tuplet # None
    /\ ended = None
    /\ tuplet[1].tag = "Ok"
    /\ Len(given) = 3
    /\ Start(given[2]) = Frac(5, 12)
    /\ Start(given[3]) = Frac(5, 12)
    /\ Len(Inner) = 3
    /\ Inner[3].event.kind = "Chord"

(***************************************************************************)
(* C20.  After Tuplet::set_end_position(end), and so after every           *)
(* Tuplet::push, the tuplet is consistent: its outer length is end minus   *)
(* its start, the length of its inner container is the outer length times  *)
(* the rate, quantized to 1/128, and the inner events cover exactly        *)
(* [0, inner length) with no gap and no overlap, whether the last inner    *)
(* event was a Rest or not.                                                *)
(***************************************************************************)
\* the tuplet is consistent with the end offset f
TupletConsistent(f) ==
    /\ tuplet[1].tag = "Ok"
    /\ tuplet[1].self.length = FSub(f, position(tuplet[1].self.position))
    /\ tuplet[1].self.container.length
          \in Nearest(FMul(tuplet[1].self.length, tuplet[1].self.rate),
                      LIMIT_DENOMINATOR)
    /\ Contiguous(Inner)
    /\ End(Inner[Len(Inner)]) = tuplet[1].self.container.length

C20_TupletConsistent ==
    ended # None => TupletConsistent(position(ended[1].end))

\* set_end_position has moved the end of a tuplet whose last inner event
\* was a note, and the inner container got a Rest appended
C20_Witness ==
    /\ ended # None
    /\ ended[1].by = "set_end_position"
    /\ ended[1].back = "Note"
    /\ tuplet[1].tag = "Ok"
    /\ Inner[Len(Inner)].event.kind = "Rest"

(***************************************************************************)
(* C21.  cut_head(h) on an event spanning [s, s + L) with 0 < h < L leaves *)
(* the event as [s, s + L - h) and returns a tail spanning                 *)
(* [s + L - h, s + L) in the same measure: the kept length plus the tail   *)
(* length is L and the tail starts where the kept part ends.               *)
(* cut_head_at_position(p) for s < p < s + L is the same split with        *)
(* h = s + L - p, so the tail starts at p.  (Rest, Note and Chord          *)
(* payloads.)                                                              *)
(***************************************************************************)
\* the cut made on ev split it into ev of [s, s + L - h) and a tail of
\* length h that ends at s + L
SplitBy(h) ==
    /\ cut[1].res.tag = "Ok"
    /\ cut[1].res.self.position = ev.position
    /\ cut[1].res.self.length = FSub(ev.length, h)
    /\ cut[1].res.head # None
    /\ cut[1].res.head[1].position.measure_index = ev.position.measure_index
    /\ Start(cut[1].res.head[1]) = End(cut[1].res.self)
    /\ cut[1].res.head[1].length = h
    /\ End(cut[1].res.head[1]) = End(ev)
    /\ FAdd(cut[1].res.self.length, cut[1].res.head[1].length) = ev.length
    /\ Untied(cut[1].res.self.event) = Untied(ev.event)
    /\ cut[1].res.head[1].event = ev.event

\* the cut made was cut_head with a head shorter than ev
CutInside ==
    /\ cut # None
    /\ cut[1].by = "cut_head"
    /\ ev.event.kind # "Tuplet"
    /\ FLt(Zero, cut[1].arg)
    /\ FLt(cut[1].arg, ev.length)

\* the cut made was cut_head_at_position at a position strictly inside ev
CutAtInside ==
    /\ cut # None
    /\ cut[1].by = "cut_head_at_position"
    /\ ev.event.kind # "Tuplet"
    /\ cut[1].arg.measure_index = ev.position.measure_index
    /\ FLt(Start(ev), position(cut[1].arg))
    /\ FLt(position(cut[1].arg), End(ev))

C21_CutHeadSplits ==
    /\ CutInside => SplitBy(cut[1].arg)
    /\ CutAtInside
       => /\ SplitBy(FSub(End(ev), position(cut[1].arg)))
          /\ Start(cut[1].res.head[1]) = position(cut[1].arg)

\* a chord that starts at 1/3 has been cut at the position 1/2
C21_Witness ==
    /\ CutAtInside
    /\ ev.event.kind = "Chord"
    /\ Start(ev) = Frac(1, 3)
    /\ position(cut[1].arg) = Frac(1, 2)
    /\ cut[1].res.tag = "Ok"
    /\ Start(cut[1].res.head[1]) = Frac(1, 2)

(***************************************************************************)
(* C22.  cut_head with a head length greater than the length of the event  *)
(* returns an error, and cut_head_at_position with a position that does    *)
(* not strictly follow the start of the event returns an error; in both    *)
(* cases the position, the length and the payload of the event are left    *)
(* as they were.                                                           *)
(***************************************************************************)
\* the cut made was cut_head with a head longer than ev (a Tuplet payload
\* aborts in split before the lengths are compared)
CutTooLong ==
    /\ cut # None
    /\ cut[1].by = "cut_head"
    /\ ev.event.kind # "Tuplet"
    /\ FLt(ev.length, cut[1].arg)

\* the cut made was cut_head_at_position at or before the start of ev
CutAtOrBeforeStart ==
    /\ cut # None
    /\ cut[1].by = "cut_head_at_position"
    /\ PosLe(cut[1].arg, ev.position)

\* the cut returned an error, no tail, and left ev as it was
CutRefused ==
    /\ cut[1].res.tag = "Err"
    /\ cut[1].res.head = None
    /\ cut[1].res.self = ev

C22_CutErrors ==
    (CutTooLong \/ CutAtOrBeforeStart) => CutRefused

\* a note of length 1/129 has been given a head of 1/128, longer than
\* itself by less than the grid
C22_Witness ==
    /\ CutTooLong
    /\ ev.event.kind = "Note"
    /\ ev.length = Frac(1, 129)
    /\ cut[1].arg = Frac(1, 128)
    /\ CutRefused

(***************************************************************************)
(* C23.  A Tuplet payload is never split: cut_head and                     *)
(* cut_head_at_position on an event whose payload is a Tuplet abort        *)
(* instead of producing two fragments, and Container::insert does not cut  *)
(* the head of an inserted Tuplet event, also when the event outlasts the  *)
(* slot it lands in.                                                       *)
(***************************************************************************)
\* the call made on ev is a cut that goes as far as splitting the payload:
\* every cut_head, and cut_head_at_position at a position after the start
CutAttempted ==
    \/ cut[1].by = "cut_head"
    \/ /\ cut[1].by = "cut_head_at_position"
       /\ ~PosLe(cut[1].arg, ev.position)

\* ev has been inserted into a container where it outlasts slot i, the
\* slot it lands in
Outlasting(i) ==
    /\ cut[1].by = "insert"
    /\ contains_pos(cut[1].arg.events[i], ev.position)
    /\ outlasts(ev, cut[1].arg.events[i]) # None

\* the insert of ev did not cut ev: it did not abort, no head came back
\* and the only Tuplet slot is a slot at the start of ev holding the
\* whole Tuplet
NotCut ==
    /\ cut[1].res.res.tag \in {"Ok", "Err"}
    /\ cut[1].res.res.tag = "Ok" => cut[1].res.res.head = None
    /\ \A j \in TupletSlots(cut[1].res.self.events) :
          /\ cut[1].res.self.events[j].position = ev.position
          /\ cut[1].res.self.events[j].event = ev.event
    /\ Cardinality(TupletSlots(cut[1].res.self.events)) <= 1

InsertedOutside ==
    /\ cut # None
    /\ cut[1].by \in {"insert", "measure_insert"}
    /\ \/ ev.position.measure_index
             # cut[1].arg.events[1].position.measure_index
       \/ FLe(cut[1].arg.length, Start(ev))

C24_NoPlaceIsError ==
    InsertedOutside
    => /\ cut[1].res.res = Err
       /\ cut[1].res.self.events = cut[1].arg.events
       /\ cut[1].res.self = cut[1].arg

\* a note at offset 0 of the next measure has been refused by a measure
\* that holds three slots
C24_Witness ==
    /\ InsertedOutside
    /\ cut[1].by = "measure_insert"
    /\ ev.event.kind = "Note"
    /\ ev.position = RelativePosition(MeasureIndex + 1, Zero)
    /\ Len(cut[1].arg.events) = 3
    /\ cut[1].res.res = Err

(***************************************************************************)
(* C25.  Voice::insert_event places an event in the measure named by its   *)
(* measure index and, whenever that measure returns an overflow, inserts   *)
(* the overflow at offset 0 of the next measure, until nothing remains.    *)
(* When all the measures needed exist it returns Ok, the lengths of the    *)
(* placed fragments sum to the length of the event, and every measure of   *)
(* the voice still satisfies the coverage invariant.                       *)
(***************************************************************************)
\* the measures from the k-th on hold an event that reaches the offset
\* rest of the k-th
RECURSIVE Fits(_, _)
Fits(k, rest) ==
    /\ k <= Len(voice.measures)
    /\ \/ FLe(rest, voice.measures[k].length)
       \/ Fits(k + 1, FSub(rest, voice.measures[k].length))

\* the last call gave an event of a measure of the voice, starting inside
\* it, and every measure it reaches exists
AllMeasuresExist ==
    /\ voice_call # None
    /\ voice_call[1].event.position.measure_index >= voice.begin_measure
    /\ voice_call[1].event.position.measure_index - voice.begin_measure
          < Len(voice.measures)
    /\ FLt(Start(voice_call[1].event),
           voice.measures[voice_call[1].event.position.measure_index
                          - voice.begin_measure + 1].length)
    /\ Fits(voice_call[1].event.position.measure_index
               - voice.begin_measure + 1,
            End(voice_call[1].event))

\* the slots of the k-th measure that hold the pitch of the last event
Holding(k) ==
    {j \in 1..Len(voice.measures[k].events) :
        PitchesOf(voice_call[1].event)
           \subseteq PitchesOf(voice.measures[k].events[j])}

\* the length of the slots of the k-th measure and the following ones that
\* hold the pitch of the last event
RECURSIVE PlacedLength(_)
PlacedLength(k) ==
    IF k > Len(voice.measures) THEN Zero
    ELSE FAdd(SumParts([j \in 1..Len(voice.measures[k].events) |->
                           IF j \in Holding(k)
                           THEN voice.measures[k].events[j].length
                           ELSE Zero]),
              PlacedLength(k + 1))

\* the fragments of the last event start at its offset in its measure and
\* at offset 0 in the following ones, and are contiguous in every measure
PlacedFrom(k) ==
    /\ Holding(k) # {}
    /\ \E j \in Holding(k) :
          Start(voice.measures[k].events[j]) = Start(voice_call[1].event)
    /\ \A m \in 1..Len(voice.measures) :
          /\ m < k => Holding(m) = {}
          /\ m > k /\ Holding(m) # {} => 1 \in Holding(m)
          /\ m > k /\ Holding(m) # {}
             => End(voice.measures[m - 1].events[
                        Len(voice.measures[m - 1].events)])
                   = voice.measures[m - 1].length
                /\ Len(voice.measures[m - 1].events) \in Holding(m - 1)
          /\ \A i, j \in Holding(m) :
                \A n \in i..j : n \in Holding(m)

\* the coverage invariant of a measure
Covered(m) ==
    /\ Contiguous(m.events)
    /\ End(m.events[Len(m.events)]) = m.length
    /\ SumLengths(m.events, 1) = m.length

C25_VoiceInsert ==
    AllMeasuresExist
    => /\ voice_call[1].tag = "Ok"
       /\ PlacedFrom(voice_call[1].event.position.measure_index
                        - voice.begin_measure + 1)
       /\ PlacedLength(1) = voice_call[1].event.length
       /\ \A k \in 1..Len(voice.measures) : Covered(voice.measures[k])

\* an event of two whole notes has been placed from the middle of measure
\* 3 over measure 4 into measure 5, across slots stored before
C25_Witness ==
    /\ AllMeasuresExist
    /\ voice_call[1].tag = "Ok"
    /\ voice_call[1].event.length = Frac(2, 1)
    /\ Holding(1) # {} /\ Holding(2) # {} /\ Holding(3) # {}
    /\ Len(voice_call[1].before[2].events) > 1

(***************************************************************************)
(* C26.  Length subtraction a - b works on the quantized values and is     *)
(* fatal on a negative result: it aborts whenever quantize(a) is less      *)
(* than quantize(b) and yields the Length quantize(a) - quantize(b)        *)
(* otherwise.                                                              *)
(***************************************************************************)
\* the multiple of 1/128 a length is quantized to, stated through the
\* nearest-multiple sets: the nearest, the upper one from halfway
Quantum(f) ==
    CHOOSE q \in Nearest(f, LIMIT_DENOMINATOR) :
        \A r \in Nearest(f, LIMIT_DENOMINATOR) : FLe(r, q)

C26_LengthSub ==
    (outcome # None /\ outcome[1].by = "Length::sub")
    => IF FLt(Quantum(operands[1]), Quantum(operands[2]))
       THEN outcome[1].res.tag = "Panic"
       ELSE outcome[1].res =
               [tag |-> "Ok",
                value |-> FSub(Quantum(operands[1]), Quantum(operands[2]))]

\* 1/3 - 1/4 has been computed as 43/128 - 32/128
C26_Witness ==
    /\ outcome # None
    /\ outcome[1].by = "Length::sub"
    /\ operands = <<Frac(1, 3), Frac(1, 4)>>
    /\ outcome[1].res = [tag |-> "Ok", value |-> Frac(11, 128)]

(***************************************************************************)
(* C27.  Every comparison of two Lengths (==, !=, <, <=, >, >=) gives the  *)
(* answer of the same comparison of their values quantized to the          *)
(* denominator 128; 1/129 and 1/128 are equal and neither is less than     *)
(* the other.                                                              *)
(***************************************************************************)
C27_QuantizedComparisons ==
    (outcome # None /\ outcome[1].by = "Length::cmp")
    => outcome[1].res =
          [eq |-> Quantum(operands[1]) = Quantum(operands[2]),
           ne |-> Quantum(operands[1]) # Quantum(operands[2]),
           lt |-> FLt(Quantum(operands[1]), Quantum(operands[2])),
           le |-> FLe(Quantum(operands[1]), Quantum(operands[2])),
           gt |-> FLt(Quantum(operands[2]), Quantum(operands[1])),
           ge |-> FLe(Quantum(operands[2]), Quantum(operands[1]))]

\* 1/129 has been compared with 1/128: equal, and less
C27_Witness ==
    /\ outcome # None
    /\ outcome[1].by = "Length::cmp"
    /\ operands = <<Frac(1, 129), Frac(1, 128)>>
    /\ outcome[1].res.eq
    /\ outcome[1].res.lt

(***************************************************************************)
(* C28.  For RelativePositions a and b of the same measure, a - b is the   *)
(* position of that measure whose offset is a.offset - b.offset when       *)
(* a.offset >= b.offset (2/4 - 1/4 = 1/4), and aborts when the result      *)
(* would be negative.                                                      *)
(***************************************************************************)
C28_PositionSub ==
    (outcome # None /\ outcome[1].by = "RelativePosition::sub")
    => IF FLt(operands[1], operands[2])
       THEN outcome[1].res.tag = "Panic"
       ELSE /\ outcome[1].res.tag = "Ok"
            /\ outcome[1].res.pos.measure_index = OperandMeasure
            /\ position(outcome[1].res.pos)
                  \in {FSub(operands[1], operands[2]),
                       FSub(Quantum(operands[1]), Quantum(operands[2]))}

\* 2/4 - 1/4 of relative_sub_1 has been computed, as 3/4
C28_Witness ==
    /\ outcome # None
    /\ outcome[1].by = "RelativePosition::sub"
    /\ operands = <<Frac(2, 4), Frac(1, 4)>>
    /\ outcome[1].res.tag = "Ok"
    /\ position(outcome[1].res.pos) = Frac(3, 4)

(***************************************************************************)
(* C29: position conversion round-trips: for every TimeMap (any first      *)
(* measure index, any start position, mixed time signatures) and every     *)
(* relative position (i, o) with measure i in the map and                  *)
(* 0 <= o < length of measure i,                                           *)
(* pos_relative_from_absolute(pos_absolute_from_relative((i, o))) is       *)
(* Some((i, o)).                                                           *)
(***************************************************************************)
\* the measure indexes of a time map
MapIndexes(self) ==
    {self.measures[k].index : k \in 1..Len(self.measures)}

\* the length of the measure of a time map that has the index
LengthOfMeasure(self, i) ==
    self.measures[CHOOSE k \in 1..Len(self.measures) :
                      self.measures[k].index = i].length

\* the relative position lies in a measure of the map
InMap(self, relative) ==
    /\ relative.measure_index \in MapIndexes(self)
    /\ FLe(Zero, relative.measure_position)
    /\ FLt(relative.measure_position,
           LengthOfMeasure(self, relative.measure_index))

C29_RoundTrip ==
    (/\ converted # None
     /\ converted[1].by = "pos_absolute_from_relative"
     /\ InMap(time_map, converted[1].arg))
        => converted[1].back = Some(converted[1].arg)

\* the offset 255/256 of the 4/4 measure 3 of time_map_2 has been converted
\* there and back
C29_Witness ==
    /\ converted # None
    /\ converted[1].by = "pos_absolute_from_relative"
    /\ time_map = time_map_2
    /\ converted[1].arg = RelativePosition(3, Frac(255, 256))
    /\ InMap(time_map, converted[1].arg)
    /\ converted[1].back = Some(RelativePosition(4, Zero))

(***************************************************************************)
(* C30: whenever pos_relative_from_absolute returns Some((i, o)), i is a   *)
(* measure of the map and 0 <= o < length of measure i; for an absolute    *)
(* position outside the range of the map it returns None.                  *)
(***************************************************************************)
\* the sum of the lengths of the first k measures
RECURSIVE LengthOfFirst(_, _)
LengthOfFirst(self, k) ==
    IF k = 0 THEN Zero
    ELSE FAdd(LengthOfFirst(self, k - 1), self.measures[k].length)

\* the absolute position lies between the start of the map and its end
InRange(self, absolute) ==
    /\ FLe(self.start_position.position, absolute.position)
    /\ FLt(absolute.position,
           FAdd(self.start_position.position,
                LengthOfFirst(self, Len(self.measures))))

C30_RelativeInMap ==
    (converted # None /\ converted[1].by = "pos_relative_from_absolute")
        => /\ converted[1].res # None => InMap(time_map, converted[1].res[1])
           /\ ~InRange(time_map, converted[1].arg) => converted[1].res = None

\* the position 1 has been converted with time_map_2, which starts at 2
C30_Witness ==
    /\ converted # None
    /\ converted[1].by = "pos_relative_from_absolute"
    /\ time_map = time_map_2
    /\ converted[1].arg = AbsolutePosition(Frac(1, 1))
    /\ ~InRange(time_map, converted[1].arg)
    /\ converted[1].res = Some(RelativePosition(3, Frac(-1, 1)))

(***************************************************************************)
(* C31: notation tokens round-trip: for every notation value n             *)
(* (NoteHead(h), Voice(v), Dynamics(d), TupletRate(r), TupletEnd) parsing  *)
(* the token of n.to_string() yields n again, and encoding the result of   *)
(* parsing a well-formed token (note-head:K, voice:N, dyn:D, tuplet:A/B,   *)
(* tuplet_end) reproduces that token.                                      *)
(***************************************************************************)
\* the token is well-formed for the notation type: key and value as the
\* notation format gives them
WellFormed(of, token) ==
    LET pieces == str_split(token, TOKENS_DELIMITER)
        rate == str_split(pieces[2], "/")
    IN  IF of = "Note"
        THEN /\ Len(pieces) = 2
             /\ \/ /\ pieces[1] = "note-head"
                   /\ \E h \in NoteHeads : pieces[2] = NoteHead_to_string(h)
                \/ /\ pieces[1] = "voice"
                   /\ IsUnsigned(pieces[2])
                   /\ unsigned_from_str(pieces[2]) < 256
        ELSE \/ token = "tuplet_end"
             \/ Len(pieces) = 2 /\ pieces[1] = "dyn"
             \/ /\ Len(pieces) = 2
                /\ pieces[1] = "tuplet"
                /\ Len(rate) = 2
                /\ IsUnsigned(rate[1])
                /\ IsUnsigned(rate[2])
                /\ unsigned_from_str(rate[2]) > 0

C31_TokensRoundTrip ==
    notated # None =>
        /\ notated[1].by = "to_string"
              => notated[1].parsed = Parsed(notated[1].notation)
        /\ (/\ notated[1].by = "from_str"
            /\ notated[1].parsed.tag = "Ok"
            /\ WellFormed(notated[1].of, notated[1].token))
              => notated[1].encoded = Some(notated[1].token)
        /\ (/\ notated[1].by = "to_string"
            /\ WellFormed(notated[1].notation.of, notated[1].token))
              => notated[1].parsed.tag = "Ok"

\* Voice(2) has been encoded as voice:2, and voice:2 has not been parsed
C31_Witness ==
    /\ notated # None
    /\ notated[1].by = "to_string"
    /\ notated[1].notation = NotationType_Note(NoteNotations_Voice(2))
    /\ notated[1].token = "voice:2"
    /\ WellFormed("Note", notated[1].token)
    /\ notated[1].parsed = NotationError("UnexpectedToken")

(***************************************************************************)
(* C32: decoding a ReaScore notation section that contains a sub-token     *)
(* whose key is not one of the known keys yields a parse error for that    *)
(* record: parse_notations does not return notations for it.               *)
(***************************************************************************)
\* the keys of the notation format
KnownKeys == {"note-head", "voice", "dyn", "tuplet", "tuplet_end"}

\* the sub-tokens of the sections of a record: what follows the marker in
\* every token that starts with it
SubTokens(tokens) ==
    {<<k, i>> \in (1..Len(tokens)) \X (2..8) :
        /\ starts_with(tokens[k], SECTION)
        /\ i <= Len(str_split(tokens[k], NOTATION_DELIMITER))}

SubToken(tokens, at) == str_split(tokens[at[1]], NOTATION_DELIMITER)[at[2]]

KeyOf(token) == str_split(token, TOKENS_DELIMITER)[1]

\* the record has one section, and a sub-token of it has an unknown key
HasUnknownKey(tokens) ==
    /\ Cardinality({k \in 1..Len(tokens) :
                       starts_with(tokens[k], SECTION)}) = 1
    /\ \E at \in SubTokens(tokens) :
          KeyOf(SubToken(tokens, at)) \notin KnownKeys

C32_UnknownKeyIsError ==
    (/\ notated # None
     /\ notated[1].by = "parse_notations"
     /\ HasUnknownKey(notated[1].tokens))
        => notated[1].notations = None

\* the section foo:1|note-head:cross has been decoded to the note head alone
C32_Witness ==
    /\ notated # None
    /\ notated[1].by = "parse_notations"
    /\ notated[1].tokens = <<"ReaScore|foo:1|note-head:cross">>
    /\ HasUnknownKey(notated[1].tokens)
    /\ notated[1].notations =
          Some(<<NotationType_Note(NoteNotations_NoteHead("Cross"))>>)

(***************************************************************************)
(* C33: replace_notations removes nothing: after the call every ReaScore   *)
(* sub-token that was present before is still present unless one of the    *)
(* given notations has the same key, in which case exactly that sub-token  *)
(* is replaced by the given notation; given notations whose key was not    *)
(* present are appended, and tokens outside the section are untouched.     *)
(***************************************************************************)
\* the section a token holds: the token itself, or what follows the word
\* text in the token replace_notations pushes
SectionOf(token) ==
    IF starts_with(token, "text " \o SECTION)
    THEN SubSeq(token, 6, Len(token))
    ELSE token

\* the ReaScore sub-tokens present in the tokens of a record
Present(tokens) ==
    LET sections == [k \in 1..Len(tokens) |-> SectionOf(tokens[k])]
    IN  {SubToken(sections, at) : at \in SubTokens(sections)}

\* the tokens of a record that hold no section
Outside(tokens) ==
    LET NoSection(tk) == ~starts_with(SectionOf(tk), SECTION)
    IN  SelectSeq(tokens, NoSection)

\* the tokens of the given notations
GivenTokens(notations) ==
    {NotationType_to_string(notations[k]) : k \in 1..Len(notations)}

C33_ReplaceRemovesNothing ==
    (/\ notated # None
     /\ notated[1].by = "replace_notations"
     /\ notated[1].replaced.tag = "Ok")
        => LET held == notated[1].tokens
               these == GivenTokens(notated[1].given)
               kept == notated[1].replaced.tokens
           IN  /\ \A t \in Present(held) :
                     (\A g \in these : KeyOf(g) # KeyOf(t))
                        => t \in Present(kept)
               /\ \A t \in Present(held) :
                     (\E g \in these : KeyOf(g) = KeyOf(t))
                        => t \in these \/ t \notin Present(kept)
               /\ these \subseteq Present(kept)
               /\ Outside(kept) = Outside(held)

\* tuplet_end has been given to a record that holds tuplet:3/2 and dyn:p,
\* and tuplet:3/2 is no longer present
C33_Witness ==
    /\ notated # None
    /\ notated[1].by = "replace_notations"
    /\ notated[1].tokens = <<"ReaScore|tuplet:3/2|dyn:p">>
    /\ notated[1].given = <<NotationType_Chord(ChordNotations_TupletEnd)>>
    /\ notated[1].replaced = [tag |-> "Ok",
                              tokens |-> <<"ReaScore|tuplet_end|dyn:p">>]

(***************************************************************************)
(* C34.  After any sequence of inserts that all returned Ok, the event     *)
(* sequence of the container / measure is, in stored order and without     *)
(* sorting, ascending and contiguous: the first slot starts at offset 0,   *)
(* every slot starts where the slot stored before it ends, and the last    *)
(* slot ends at the length of the container.                               *)
(***************************************************************************)
C34_StoredContiguous ==
    (all_ok /\ subject \in {"Measure", "Container"})
    => /\ Contiguous(Events)
       /\ End(Events[Len(Events)]) = TotalLength

\* three inserts have cut the stored sequence into at least four slots, and
\* the last call cut a stored slot that outlasts the inserted event
C34_Witness ==
    /\ all_ok
    /\ subject \in {"Measure", "Container"}
    /\ calls >= 3
    /\ Len(Events) >= 4
    /\ inserted # None
    /\ \E i \in 1..Len(before.events) :
          /\ FLe(Start(before.events[i]), Start(inserted[1]))
          /\ FLt(End(inserted[1]), End(before.events[i]))

(***************************************************************************)
(* C35.  A successful insert of an unmarked note N spanning [p, p + L)     *)
(* into a container / measure of length M with no tuplet pending changes   *)
(* content only inside its span: afterwards every slot inside              *)
(* [p, min(p + L, M)) contains the pitch of N, alone or as a chord member, *)
(* and every point outside the span is covered by a slot with the same     *)
(* payload kind and pitches as before: rests stay rests and stored notes   *)
(* are at most split.                                                      *)
(***************************************************************************)
\* the last call inserted an unmarked note with no tuplet pending and
\* returned Ok
NoteInserted ==
    /\ inserted # None
    /\ inserted[1].tuplet_type.kind = "NonTuplet"
    /\ inserted[1].event.kind = "Note"
    /\ before.tuplet = None
    /\ result.tag = "Ok"

\* the span of the inserted note inside the container: [p, min(p + L, M))
SpanStart == Start(inserted[1])
SpanEnd ==
    IF FLt(before.length, End(inserted[1])) THEN before.length
    ELSE End(inserted[1])

InsideSpan(e) == FLe(SpanStart, Start(e)) /\ FLe(End(e), SpanEnd)

\* the slots a and b share a point that is outside the span
MeetOutsideSpan(a, b) ==
    LET from == IF FLt(Start(a), Start(b)) THEN Start(b) ELSE Start(a)
        to == IF FLt(End(a), End(b)) THEN End(a) ELSE End(b)
    IN  /\ FLt(from, to)
        /\ FLt(from, SpanStart) \/ FLt(SpanEnd, to)

\* the payload kind and the pitches of a slot
Content(e) == [kind |-> e.event.kind, pitches |-> PitchesOf(e)]

LastContainer ==
    [container EXCEPT !.events = before.events, !.tuplet = before.tuplet]
LastMeasure == [measure EXCEPT !.events = before.events]

\* the events of the calls of the last insert, the outer call first
InsertCalls ==
    IF subject = "Measure" THEN Measure_calls(LastMeasure, inserted[1])
    ELSE Container_calls(LastContainer, inserted[1])

\* every call but the first starts strictly later than the one before
StrictlyLater(events) ==
    \A i \in 1..(Len(events) - 1) : FLt(Start(events[i]), Start(events[i + 1]))

\* the calls of the last Voice::insert_event
VoiceCalls ==
    Voice_calls([voice EXCEPT !.measures = voice_call[1].before],
                voice_call[1].event)

\* the number of recursive calls among the calls of the last
\* Voice::insert_event, those of Measure::insert included
RECURSIVE RecursiveSteps(_, _)
RecursiveSteps(made, i) ==
    IF i > Len(made) THEN 0
    ELSE (IF i > 1 THEN 1 ELSE 0)
         + (IF made[i].inserts = <<>> THEN 0 ELSE Len(made[i].inserts) - 1)
         + RecursiveSteps(made, i + 1)

RECURSIVE SlotsOf(_, _)
SlotsOf(measures, k) ==
    IF k > Len(measures) THEN 0
    ELSE Len(measures[k].events) + SlotsOf(measures, k + 1)

C36_InsertTerminates ==
    /\ inserted # None
       => /\ StrictlyLater(InsertCalls)
          /\ Len(InsertCalls) - 1 <= Len(before.events) + 1
          /\ result.tag \in {"Ok", "Err"}
    /\ voice_call # None
       => /\ \A i \in 1..(Len(VoiceCalls) - 1) :
                VoiceCalls[i].index < VoiceCalls[i + 1].index
          /\ \A i \in 1..Len(VoiceCalls) : StrictlyLater(VoiceCalls[i].inserts)
          /\ RecursiveSteps(VoiceCalls, 1)
                <= SlotsOf(voice_call[1].before, 1) + Len(voice_call[1].before)
          /\ voice_call[1].tag \in {"Ok", "Err"}

\* an insert into the container has re-inserted a remainder twice, over
\* two slot boundaries, and returned Ok
C36_Witness ==
    /\ subject = "Container"
    /\ inserted # None
    /\ Len(InsertCalls) >= 3
    /\ result.tag = "Ok"

(***************************************************************************)
(* C37.  Voice::insert_event returns Err, without a panic and without      *)
(* dropping the event silently, when the event or an overflow remainder    *)
(* targets a measure index beyond the last measure of the voice, as for a  *)
(* note that starts in the last measure and ends after its end.            *)
(***************************************************************************)
\* the index of the last measure of the voice
LastIndex == voice.begin_measure + Len(voice.measures) - 1

\* a call of the last Voice::insert_event targets a measure after the last
TargetsBeyond ==
    \E i \in 1..Len(VoiceCalls) : VoiceCalls[i].index > LastIndex

\* the last event starts inside the last measure and ends after its end
EndsAfterLast ==
    /\ voice_call[1].event.position.measure_index = LastIndex
    /\ FLt(Start(voice_call[1].event),
           voice.measures[Len(voice.measures)].length)
    /\ FLt(voice.measures[Len(voice.measures)].length,
           End(voice_call[1].event))

C37_BeyondLastIsErr ==
    (voice_call # None /\ (TargetsBeyond \/ EndsAfterLast))
    => voice_call[1].tag = "Err"

\* a note that starts in the last measure over slots stored before and
\* ends after it: its part inside the measure is placed, the remainder
\* targets the missing measure and the call returns Err
C37_Witness ==
    /\ voice_call # None
    /\ EndsAfterLast
    /\ Len(VoiceCalls) = 2
    /\ VoiceCalls[2].index = LastIndex + 1
    /\ Len(voice_call[1].before[Len(voice.measures)].events) > 1
    /\ Holding(Len(voice.measures)) # {}
    /\ voice_call[1].tag = "Err"

(***************************************************************************)
(* C38.  In any sequence of inserts that all return Ok, the pending-tuplet *)
(* slot of the container is non-empty exactly when the most recent event   *)
(* with a marker inserted so far is a TupletStart: it is empty at first, a *)
(* TupletStart fills it, a TupletEnd empties it, and a NonTuplet insert    *)
(* never changes whether it is empty.  A TupletEnd inserted while the slot *)
(* is empty is placed in the outer sequence like an ordinary event.        *)
(***************************************************************************)
\* the last event without its marker
Unmarked == [inserted[1] EXCEPT !.tuplet_type = NonTuplet]

\* what the insert of the last event without its marker gives
AsOrdinary == Container_insert(LastContainer, Unmarked)

C38_PendingFollowsMarkers ==
    (subject = "Container" /\ all_ok)
    => /\ inserted = None => container.tuplet = None
       /\ inserted # None
          => /\ inserted[1].tuplet_type.kind = "TupletStart"
                => container.tuplet # None
             /\ inserted[1].tuplet_type.kind = "TupletEnd"
                => container.tuplet = None
             /\ inserted[1].tuplet_type.kind = "NonTuplet"
                => (container.tuplet = None) <=> (before.tuplet = None)
             /\ (inserted[1].tuplet_type.kind = "TupletEnd"
                 /\ before.tuplet = None)
                => /\ container = AsOrdinary.self
                   /\ AsOrdinary.res.tag = "Ok"
                   /\ Placed(inserted[1])
                   /\ result.head = None <=> AsOrdinary.res.head = None
                   /\ result.head # None
                      => [result.head[1] EXCEPT !.tuplet_type = NonTuplet]
                            = AsOrdinary.res.head[1]

\* a TupletEnd came while the slot was empty, after a note stored by an
\* earlier call, and was placed as a note in a slot of its own
C38_Witness ==
    /\ subject = "Container"
    /\ all_ok
    /\ inserted # None
    /\ inserted[1].tuplet_type.kind = "TupletEnd"
    /\ before.tuplet = None
    /\ \E i \in 1..Len(before.events) : before.events[i].event.kind = "Note"
    /\ \E j \in 1..Len(Events) :
          /\ Events[j].event.kind = "Note"
          /\ Events[j].event.note.pitch = inserted[1].event.note.pitch
          /\ Start(Events[j]) = Start(inserted[1])
          /\ End(Events[j]) = End(inserted[1])
    /\ container.tuplet = None

(***************************************************************************)
(* C39.  PreviewWindow::check_item re-parses the track only on a timer     *)
(* poll where the observed (MIDI hash, cursor position) pair differs from  *)
(* the last recorded pair, ready_for_render had been set by an earlier     *)
(* poll, and at least render_lag ms have passed since last_render.  On     *)
(* such a poll it records the observed hash and cursor and clears          *)
(* ready_for_render before parsing, so a parse that failed is not retried  *)
(* until the hash or the cursor changes.                                   *)
(***************************************************************************)
\* the last poll observed a pair that differs from the recorded one, with
\* ready_for_render set and the lag passed
DuePoll ==
    /\ polled # None
    /\ polled[1].track
    /\ polled[1].hash # None
    /\ <<polled[1].hash[1], polled[1].cursor_pos>>
          # <<polled[1].before.hash, polled[1].before.cursor_pos>>
    /\ polled[1].before.ready_for_render
    /\ polled[1].at - polled[1].before.last_render
          >= polled[1].before.render_lag

C39_ReparseOnlyWhenDue ==
    /\ window.ready_for_render => polled # None
    /\ polled # None
       => /\ polled[1].parsed => DuePoll
          /\ DuePoll
             => /\ polled[1].checked.hash = polled[1].hash[1]
                /\ polled[1].checked.cursor_pos = polled[1].cursor_pos
                /\ ~polled[1].checked.ready_for_render
                /\ polled[1].checked.last_render = polled[1].at
          /\ polled[1].parsed
             => polled[1].was_failed
                   # Some(<<polled[1].hash[1], polled[1].cursor_pos>>)
          /\ ~polled[1].parsed => polled[1].checked.code = polled[1].before.code

\* a parse has failed on a due poll, and a later poll, long after the lag,
\* has observed the same hash and cursor with the track still selected and
\* has not parsed
C39_Witness ==
    /\ polled # None
    /\ polled[1].was_failed = Some(<<"a", 1>>)
    /\ polled[1].failed = Some(<<"a", 1>>)
    /\ polled[1].track
    /\ polled[1].hash = Some("a")
    /\ polled[1].cursor_pos = 1
    /\ ~polled[1].parsed
    /\ polled[1].at - polled[1].before.last_render > polled[1].before.render_lag
    /\ window.hash = "a"
    /\ window.cursor_pos = 1

=============================================================================
